---- MODULE Spec2Model ----
(***************************************************************************)
(* Agent orchestration runtime of the multi-agent tutoring system:         *)
(* Runner.run_agent / Runner.process_query (src/utils/adk.py), the three   *)
(* agents' run generators (src/agents/*.py) and the SessionService.        *)
(*                                                                         *)
(* Agents are Python async generators.  A generator is modelled by its     *)
(* suspension point (apc) and its locals; one resumption of a generator    *)
(* is one evaluation of the agent's step operator.  The Runner drives a    *)
(* generator with "async for", which resumes it with the value None.       *)
(***************************************************************************)
EXTENDS Integers, Sequences, FiniteSets, TLC

(***************************************************************************)
(* Bounds                                                                  *)
(***************************************************************************)
MaxCalls == 2
MaxKeywords == 3
MaxServiceCalls == 3
MaxKeyLen == 3
MaxExprLen == 3
MaxRetries == 3

(***************************************************************************)
(* Names                                                                   *)
(***************************************************************************)
None == "<None>"
NoSession == "<no session>"

AllAgents == {"TutorAgent", "MathAgent", "PhysicsAgent"}
AllTools == {"CalculatorTool", "LookupTool"}
\* variant: the TutorAgent offers itself as a candidate too
available_agents_All == AllAgents
\* TutorAgent.available_agents, tutor_agent.py line 51
available_agents == {"MathAgent", "PhysicsAgent"}

\* the arguments a Runner is constructed with: the agent and tool
\* registries and the request_id and trace_id (main.py get_runner passes
\* those of the HTTP request)
Runner(agents_, tools_, request_id_, trace_id_) ==
    [agents |-> agents_, tools |-> tools_,
     request_id |-> request_id_, trace_id |-> trace_id_]
Runners ==
    { Runner(AllAgents, AllTools, "req-1", "trace-1"),
      Runner(AllAgents, {"LookupTool"}, "req-2", "trace-2"),
      Runner(AllAgents \ {"MathAgent"}, AllTools, "req-2", "trace-2"),
      Runner(AllAgents \ {"TutorAgent"}, AllTools, "req-1", "trace-1") }

SessionIds == {"s1", "s2"}

\* Confidences are counted in ten-thousandths: One is the float 1.0.
One == 10000

\* thresholds of src/config/settings.py
DEFAULT_CONFIDENCE_THRESHOLD == 7000
HIGH_CONFIDENCE_THRESHOLD == 9000
LOW_CONFIDENCE_THRESHOLD == 5000

(***************************************************************************)
(* Queries.  A query is its text together with what the agents' keyword    *)
(* lists and regular expressions compute from that text:                   *)
(*   blank         not query or not query.strip()                          *)
(*   math_count    number of math keywords contained in the query          *)
(*   physics_count number of physics keywords contained in the query       *)
(*   m_calc        MathAgent._needs_calculation                            *)
(*   p_const, p_formula, p_calc   PhysicsAgent._needs_constant_lookup,     *)
(*                 _needs_formula_lookup, _needs_calculation               *)
(***************************************************************************)
Q(text, blank, mc, pc, mcalc, pconst, pform, pcalc) ==
    [text |-> text, blank |-> blank, math_count |-> mc, physics_count |-> pc,
     m_calc |-> mcalc, p_const |-> pconst, p_formula |-> pform, p_calc |-> pcalc]

Queries ==
    { Q("", TRUE, 0, 0, FALSE, FALSE, FALSE, FALSE),
      Q("   ", TRUE, 0, 0, FALSE, FALSE, FALSE, FALSE),
      Q("calculate 2+2", FALSE, 1, 0, TRUE, FALSE, FALSE, TRUE),
      Q("explain algebra", FALSE, 1, 0, FALSE, FALSE, FALSE, FALSE),
      Q("what is momentum", FALSE, 0, 1, TRUE, TRUE, TRUE, FALSE),
      Q("speed of light and calculate 3*4", FALSE, 1, 1, TRUE, TRUE, FALSE, TRUE),
      Q("hello there", FALSE, 0, 0, FALSE, FALSE, FALSE, FALSE) }

(***************************************************************************)
(* Events (src/models/adk.py).  Every event is a record of one shape; the  *)
(* fields a variant does not have hold None.  NoneEvent is the Python      *)
(* value None travelling where an event is expected; NoEvent says that     *)
(* nothing is in flight.                                                   *)
(***************************************************************************)
\* a score mapping: a confidence per candidate agent, Absent for a missing key
Absent == -1
NoScores == [MathAgent |-> Absent, PhysicsAgent |-> Absent]
NoCtx == [scores |-> NoScores, ambiguity_note |-> FALSE]

\* FinalResponse.tool_results: absent (Python None), the result mapping of
\* one tool, or PhysicsAgent's composite of three (each a mapping or None)
TR(kind, single, c, f, k) ==
    [kind |-> kind, single |-> single, constant_result |-> c,
     formula_result |-> f, calculation_result |-> k]
NoResults == TR("none", None, None, None, None)
SingleResult(r) == TR("single", r, None, None, None)
CompositeResult(c, f, k) == TR("composite", None, c, f, k)

\* request_id and trace_id are filled in by whoever constructs the event
Ev(type, agent, tool, payload, err, results, conf, ctx) ==
    [event_type |-> type, agent |-> agent, tool |-> tool, payload |-> payload,
     error |-> err, results |-> results, confidence |-> conf, context |-> ctx,
     request_id |-> None, trace_id |-> None]

\* the keyword arguments request_id=..., trace_id=... of an event constructor
Stamp(ev, rid, tid) == [ev EXCEPT !.request_id = rid, !.trace_id = tid]

NoEvent == Ev("<nothing>", None, None, None, None, NoResults, 0, NoCtx)
NoneEvent == Ev("<None>", None, None, None, None, NoResults, 0, NoCtx)

DelegationEvent(target_agent, confidence, context) ==
    Ev("delegation", target_agent, None, None, None, NoResults, confidence, context)
ClarificationEvent(options) ==
    Ev("clarification", None, None, options, None, NoResults, 0, NoCtx)
GeneralResponseEvent(response) ==
    Ev("general_response", None, None, response, None, NoResults, 0, NoCtx)
ToolInvocationEvent(tool_name, inputs) ==
    Ev("tool_invocation", None, tool_name, inputs, None, NoResults, 0, NoCtx)
\* result is the tool's mapping ("{}" the empty one), error None or the text
ToolResultEvent(tool_name, result, error) ==
    Ev("tool_result", None, tool_name, result, error, NoResults, 0, NoCtx)
FinalResponseEvent(response, agent_used, tool_used, tool_results) ==
    Ev("final_response", agent_used, tool_used, response, None, tool_results, 0, NoCtx)
\* error holds error_code, payload holds error_message
ErrorEvent(error_code, error_message) ==
    Ev("error", None, None, error_message, error_code, NoResults, 0, NoCtx)

(***************************************************************************)
(* SessionService (src/utils/adk.py, lines 313-354).  self.sessions is a   *)
(* function from the ids that have an entry to mappings; a mapping is a    *)
(* function from its keys to values.                                       *)
(***************************************************************************)
EmptyMapping == [k \in {} |-> None]

\* "return self.sessions.get(session_id, {})", line 331
get_session_state(sess, session_id) ==
    IF session_id \in DOMAIN sess THEN sess[session_id] ELSE EmptyMapping

\* variant: the default is stored, as dict.setdefault does
StoreAfterGet_SetDefault(sess, session_id) ==
    IF session_id \in DOMAIN sess
    THEN sess
    ELSE [i \in DOMAIN sess \cup {session_id} |->
             IF i = session_id THEN EmptyMapping ELSE sess[i]]

\* self.sessions after get_session_state: dict.get stores nothing
StoreAfterGet(sess, session_id) == sess

\* variant: the whole store is emptied
clear_session_All(sess, session_id) == [i \in {} |-> EmptyMapping]

\* lines 346-354
clear_session(sess, session_id) ==
    [i \in DOMAIN sess \ {session_id} |-> sess[i]]

\* variant: keys already present keep their values
DictUpdate_KeepOld(old, updates) ==
    [k \in DOMAIN old \cup DOMAIN updates |->
        IF k \in DOMAIN old THEN old[k] ELSE updates[k]]

\* variant: the entry is replaced instead of merged
DictUpdate_Replace(old, updates) == updates

\* dict.update: keys of updates overwrite, the others stay
DictUpdate(old, updates) ==
    [k \in DOMAIN old \cup DOMAIN updates |->
        IF k \in DOMAIN updates THEN updates[k] ELSE old[k]]

\* variant: the entry is created anew on every update
EnsureEntry_Always(sess, session_id) ==
    [i \in DOMAIN sess \cup {session_id} |->
        IF i = session_id THEN EmptyMapping ELSE sess[i]]

\* "if session_id not in self.sessions: self.sessions[session_id] = {}",
\* lines 341-342
EnsureEntry(sess, session_id) ==
    IF session_id \in DOMAIN sess
    THEN sess
    ELSE [i \in DOMAIN sess \cup {session_id} |->
             IF i = session_id THEN EmptyMapping ELSE sess[i]]

\* variant: the store is rebuilt with the updated entry only
update_session_state_Alone(sess, session_id, updates) ==
    LET created == EnsureEntry(sess, session_id)
    IN [i \in {session_id} |-> DictUpdate(created[session_id], updates)]

\* lines 333-344
update_session_state(sess, session_id, updates) ==
    LET created == EnsureEntry(sess, session_id)
    IN [created EXCEPT ![session_id] = DictUpdate(created[session_id], updates)]

\* "if self.session_service and session_id", lines 256 and 288
HasSession(sid) == sid # NoSession

\* what another caller of the shared SessionService writes
ExternalUpdates == { [topic |-> "algebra", last_query |-> "old"] }

(***************************************************************************)
(* The text-generation oracle (src/utils/gemini.py), seen from its         *)
(* callers: generate_text returns a text or raises GeminiAPIError;         *)
(* the classification reply is what analyze_query_intent parses.           *)
(***************************************************************************)
Gen(ok, text) == [ok |-> ok, text |-> text]
GenOutcomes == { Gen(TRUE, "answer"), Gen(TRUE, ""), Gen(FALSE, None) }

Reply(ok, best_agent, confidence, scores) ==
    [ok |-> ok, best_agent |-> best_agent, confidence |-> confidence, scores |-> scores]
Scores(m, p) == [MathAgent |-> m, PhysicsAgent |-> p]
IntentReplies ==
    { Reply(FALSE, None, 0, NoScores),
      Reply(TRUE, "MathAgent", 9500, Scores(9500, 500)),
      Reply(TRUE, "PhysicsAgent", 7500, Scores(2000, 7500)),
      Reply(TRUE, "MathAgent", 6000, Scores(6000, Absent)),
      Reply(TRUE, "PhysicsAgent", 5000, Scores(5000, 5000)),
      Reply(TRUE, "MathAgent", 3000, NoScores),
      Reply(TRUE, "ChemistryAgent", 9000, Scores(500, 500)),
      Reply(TRUE, "TutorAgent", 9500, Scores(500, 500)),
      Reply(TRUE, None, 8000, Scores(4000, 4000)),
      Reply(TRUE, "MathAgent", 12000, Scores(12000, 0)) }

NoReply == Reply(FALSE, None, 0, NoScores)
NoGen == Gen(FALSE, None)

\* GeminiClient.analyze_query_intent, lines 177-207
Intent(ok, best_agent, confidence, scores, oracle_called) ==
    [ok |-> ok, best_agent |-> best_agent, confidence |-> confidence,
     scores |-> scores, oracle_called |-> oracle_called]

\* variant: any name the oracle gives is accepted
ValidBestAgent_Unchecked(best_agent, candidates) == TRUE

\* "if not best_agent or best_agent not in available_agents", line 196,
\* negated
ValidBestAgent(best_agent, candidates) ==
    best_agent # None /\ best_agent \in candidates

analyze_query_intent(reply, candidates) ==
    IF ~reply.ok
    THEN Intent(FALSE, None, 0, NoScores, TRUE)
    ELSE IF ~ValidBestAgent(reply.best_agent, candidates)
         THEN Intent(FALSE, None, 0, NoScores, TRUE)
         ELSE Intent(TRUE, reply.best_agent, reply.confidence, reply.scores, TRUE)

(***************************************************************************)
(* GeminiClient.generate_text (src/utils/gemini.py, lines 73-122): the     *)
(* retry loop around the oracle.  An activation is the state of one call   *)
(* of generate_text:                                                       *)
(*   at        "idle" not called, "awaiting" suspended in the await of     *)
(*             line 106, "sleeping" inside time.sleep of line 122,         *)
(*             "returned", "raised"                                        *)
(*   attempt   the loop variable                                           *)
(*   attempts  the outcomes of send_message_async so far                   *)
(*   slept     the arguments of time.sleep so far, in seconds              *)
(***************************************************************************)
Callers == {"call-1", "call-2"}

\* GeminiAPIError, src/utils/errors.py lines 119-134
GeminiAPIError(message) ==
    [code |-> "GEMINI_API_ERROR", message |-> message, retry |-> TRUE,
     status_code |-> 503]

NotCalled ==
    [at |-> "idle", retry_count |-> 0, retry_delay |-> 0, attempt |-> 0,
     attempts |-> <<>>, slept |-> <<>>, text |-> None,
     error |-> [code |-> None, message |-> None, retry |-> FALSE, status_code |-> 0]]

\* what an attempt can end with: response.text, or an exception (its text)
AttemptOutcomes == { Gen(TRUE, "answer"), Gen(FALSE, "503 unavailable") }

\* variant: one attempt more before giving up
LastAttempt_OneMore(attempt, retry_count) == attempt = retry_count + 1

\* "if attempt == retry_count", line 114
LastAttempt(attempt, retry_count) == attempt = retry_count

\* lines 106-122: the attempt the activation is waiting for ends; Backoff is
\* "retry_delay * (2 ** attempt)", line 122
AttemptEnded(a, g) ==
    LET tried == [a EXCEPT !.attempts = Append(@, g)]
        Backoff(retry_delay, attempt) == retry_delay * 2 ^ attempt
    IN IF g.ok
       THEN [tried EXCEPT !.at = "returned", !.text = g.text]
       ELSE IF LastAttempt(a.attempt, a.retry_count)
            THEN [tried EXCEPT !.at = "raised",
                      !.error = GeminiAPIError("Failed to generate text: " \o g.text)]
            ELSE [tried EXCEPT !.at = "sleeping",
                      !.slept = Append(@, Backoff(a.retry_delay, a.attempt))]

(***************************************************************************)
(* Tools.  execute returns a result mapping or raises; a string that the   *)
(* tool inspects is the sequence of its characters.                        *)
(***************************************************************************)
Outcome(ok, result, error) == [ok |-> ok, result |-> result, error |-> error]

\* execute raises ToolError (src/utils/errors.py, lines 101-117): the
\* outcome with the exception's class, code and details; error is str(e)
ToolError(message, details) ==
    [ok |-> FALSE, result |-> None, error |-> message, exception |-> "ToolError",
     code |-> "TOOL_ERROR", details |-> details]

\* inputs.get(field, default)
Get(inputs_, field, default) ==
    IF field \in DOMAIN inputs_ THEN inputs_[field] ELSE default

\* the text of a string
RECURSIVE Text(_)
Text(s) == IF s = <<>> THEN "" ELSE s[1] \o Text(Tail(s))

\* "a in b" on strings
In(a, b) == \E i \in 0..(Len(b) - Len(a)) : SubSeq(b, i + 1, i + Len(a)) = a

(***************************************************************************)
(* LookupTool (src/tools/lookup.py).  A collection is the sequence of its  *)
(* keys in dict order (src/config/settings.py, lines 45-110); the entry of *)
(* a key is named by its collection and key.                               *)
(***************************************************************************)
PHYSICS_CONSTANTS ==
    << <<"g">>,
       <<"c">>,
       <<"G">>,
       <<"h">>,
       <<"e">>,
       <<"m", "e">>,
       <<"m", "p">>,
       <<"k">>,
       <<"N", "A">>,
       <<"R">> >>

PHYSICS_FORMULAS ==
    << <<"n", "e", "w", "t", "o", "n", "_", "s", "e", "c", "o", "n", "d",
          "_", "l", "a", "w">>,
       <<"k", "i", "n", "e", "t", "i", "c", "_", "e", "n", "e", "r", "g",
          "y">>,
       <<"p", "o", "t", "e", "n", "t", "i", "a", "l", "_", "e", "n", "e",
          "r", "g", "y", "_", "g", "r", "a", "v", "i", "t", "a", "t", "i",
          "o", "n", "a", "l">>,
       <<"m", "o", "m", "e", "n", "t", "u", "m">>,
       <<"u", "n", "i", "f", "o", "r", "m", "_", "a", "c", "c", "e", "l",
          "e", "r", "a", "t", "i", "o", "n">>,
       <<"u", "n", "i", "f", "o", "r", "m", "_", "a", "c", "c", "e", "l",
          "e", "r", "a", "t", "i", "o", "n", "_", "d", "i", "s", "t", "a",
          "n", "c", "e">>,
       <<"w", "o", "r", "k">>,
       <<"p", "o", "w", "e", "r">>,
       <<"o", "h", "m", "s", "_", "l", "a", "w">>,
       <<"u", "n", "i", "v", "e", "r", "s", "a", "l", "_", "g", "r", "a",
          "v", "i", "t", "a", "t", "i", "o", "n">> >>

\* str.lower
lower(s) ==
    LET UpperCase ==
            << "A", "B", "C", "D", "E", "F", "G", "H", "I", "J", "K", "L", "M",
               "N", "O", "P", "Q", "R", "S", "T", "U", "V", "W", "X", "Y", "Z" >>
        LowerCase ==
            << "a", "b", "c", "d", "e", "f", "g", "h", "i", "j", "k", "l", "m",
               "n", "o", "p", "q", "r", "s", "t", "u", "v", "w", "x", "y", "z" >>
        LowerChar(ch) ==
            IF \E i \in 1..26 : UpperCase[i] = ch
            THEN LowerCase[CHOOSE i \in 1..26 : UpperCase[i] = ch]
            ELSE ch
    IN [i \in 1..Len(s) |-> LowerChar(s[i])]

\* a score is the fraction <<numerator, denominator>>
Greater(x, y) == x[1] * y[2] > y[1] * x[2]

\* (matched_key, confidence); no key, None, is <<>>: as falsy as the empty
\* string
Match(matched_key, confidence) ==
    [matched_key |-> matched_key, confidence |-> confidence]

\* variant: a score of one half is good enough
GoodEnough_AtLeastHalf(best_score) == ~Greater(<<1, 2>>, best_score)

\* "best_score > 0.5", line 76
GoodEnough(best_score) == Greater(best_score, <<1, 2>>)

\* the loop of lines 60-73 over the remaining keys
RECURSIVE PartialMatch(_, _, _, _)
PartialMatch(key_lower, keys, best_match, best_score) ==
    IF keys = <<>>
    THEN Match(best_match, best_score)
    ELSE LET k == Head(keys)
             k_lower == lower(k)
             related == In(key_lower, k_lower) \/ In(k_lower, key_lower)
             score == IF In(key_lower, k_lower)
                      THEN <<Len(key_lower), Len(k_lower)>>
                      ELSE <<Len(k_lower), Len(key_lower)>>
             better == related /\ Greater(score, best_score)
         IN PartialMatch(key_lower, Tail(keys),
                         IF better THEN k ELSE best_match,
                         IF better THEN score ELSE best_score)

\* LookupTool._fuzzy_match, lines 35-79
_fuzzy_match(key, collection) ==
    LET keys == {collection[i] : i \in 1..Len(collection)}
        same == {i \in 1..Len(collection) : lower(collection[i]) = lower(key)}
        best == PartialMatch(lower(key), collection, <<>>, <<0, 1>>)
    IN IF key \in keys
       THEN Match(key, <<1, 1>>)
       ELSE IF same # {}
            THEN Match(collection[CHOOSE i \in same : \A j \in same : i <= j],
                       <<9, 10>>)
            ELSE IF best.matched_key # <<>> /\ GoodEnough(best.confidence)
                 THEN best
                 ELSE Match(<<>>, <<0, 1>>)

\* variant: every result is annotated
IsFuzzy_Always(confidence) == TRUE

\* "confidence < 1.0", line 158
IsFuzzy(confidence) == Greater(<<1, 1>>, confidence)

\* LookupTool.execute, lines 81-163.  LookupResult is the result mapping of
\* lines 136-160; entry stands for the fields copied from
\* collection[matched_key]
LookupTool_execute(inputs_) ==
    LET key == Get(inputs_, "key", <<>>)
        lookup_type == Get(inputs_, "type", "constant")
        collection == IF lookup_type = "constant"
                      THEN PHYSICS_CONSTANTS ELSE PHYSICS_FORMULAS
        m == _fuzzy_match(key, collection)
        LookupResult(matched_key, confidence) ==
            IF IsFuzzy(confidence)
            THEN [key |-> matched_key, type |-> lookup_type,
                  entry |-> <<lookup_type, matched_key>>,
                  match_confidence |-> confidence, original_query |-> key]
            ELSE [key |-> matched_key, type |-> lookup_type,
                  entry |-> <<lookup_type, matched_key>>]
    IN IF key = <<>>
       THEN ToolError("Missing key for lookup", EmptyMapping)
       ELSE IF lookup_type \notin {"constant", "formula"}
            THEN ToolError("Invalid lookup type: " \o lookup_type
                           \o ". Must be 'constant' or 'formula'.", EmptyMapping)
            ELSE IF m.matched_key = <<>>
                 THEN ToolError("No match found for " \o lookup_type
                                \o ": " \o Text(key),
                                [key |-> key, type |-> lookup_type])
                 ELSE Outcome(TRUE,
                              LookupResult(m.matched_key, m.confidence),
                              None)

(***************************************************************************)
(* CalculatorTool (src/tools/calculator.py).  The expressions are made of  *)
(* digits, operators, parentheses and blanks.                              *)
(***************************************************************************)
DigitChars == {"0", "1", "2", "3", "4", "5", "6", "7", "8", "9"}

\* [a-zA-Z]
LetterChars ==
    { "A", "B", "C", "D", "E", "F", "G", "H", "I", "J", "K", "L", "M",
      "N", "O", "P", "Q", "R", "S", "T", "U", "V", "W", "X", "Y", "Z",
      "a", "b", "c", "d", "e", "f", "g", "h", "i", "j", "k", "l", "m",
      "n", "o", "p", "q", "r", "s", "t", "u", "v", "w", "x", "y", "z" }

\* re.findall(r'[+\-*/^()]|\d+\.\d+|\d+|[a-zA-Z]+', expression), line 80,
\* on a text without decimal points; Run is the length of the run of
\* characters of one class the text starts with
RECURSIVE Tokens(_)
Tokens(text) ==
    LET OperatorChars == {"+", "-", "*", "/", "^", "(", ")"}
        Run(class) ==
            CHOOSE n \in 0..Len(text) :
                /\ \A i \in 1..n : text[i] \in class
                /\ n < Len(text) => text[n + 1] \notin class
        Taken(n) == <<SubSeq(text, 1, n)>> \o Tokens(SubSeq(text, n + 1, Len(text)))
    IN IF text = <<>> THEN <<>>
       ELSE IF Head(text) \in OperatorChars THEN Taken(1)
       ELSE IF Head(text) \in DigitChars THEN Taken(Run(DigitChars))
       ELSE IF Head(text) \in LetterChars THEN Taken(Run(LetterChars))
       ELSE Tokens(Tail(text))

\* r'^\d+$', line 86
IsNumber(token) == token # <<>> /\ \A i \in 1..Len(token) : token[i] \in DigitChars

\* the keys of allowed_symbols in dict order, lines 34-62, up to the
\* parentheses; the three keys that follow are regular expressions
allowed_symbols ==
    << "+", "-", "*", "/", "**", "^", "sqrt", "exp", "log", "sin", "cos",
       "tan", "asin", "acos", "atan", "pi", "e", "(", ")" >>

\* the loop of lines 91-94 over the remaining patterns: "allowed",
\* "disallowed", or "error" when re.match raises re.error.
\* re.match(f'^{pattern}$', token), line 92: the patterns "^+$", "^*$" and
\* "^**$" do not compile (nothing to repeat), nor do "^($" and "^)$";
\* "^^$" matches the empty text only, the other keys match themselves
RECURSIVE CheckSymbol(_, _)
CheckSymbol(token, patterns) ==
    LET PatternError(pattern) == pattern \in {"+", "*", "**", "(", ")"}
        PatternMatches(pattern) == pattern # "^" /\ pattern = Text(token)
    IN IF patterns = <<>> THEN "disallowed"
       ELSE IF PatternError(Head(patterns)) THEN "error"
       ELSE IF PatternMatches(Head(patterns)) THEN "allowed"
       ELSE CheckSymbol(token, Tail(patterns))

\* what _validate_expression does: it returns (is_valid, error_message) or
\* an exception leaves it
Validation(raised_, is_valid, error_message) ==
    [raised |-> raised_, is_valid |-> is_valid, error_message |-> error_message]

\* the loop of lines 82-97 over the remaining tokens
RECURSIVE CheckTokens(_)
CheckTokens(tokens) ==
    IF tokens = <<>> THEN Validation(None, TRUE, None)
    ELSE IF IsNumber(Head(tokens)) THEN CheckTokens(Tail(tokens))
    ELSE LET checked == CheckSymbol(Head(tokens), allowed_symbols)
         IN IF checked = "error"
            THEN Validation("nothing to repeat at position 1", FALSE, None)
            ELSE IF checked = "disallowed"
                 THEN Validation(None, FALSE, "Disallowed symbol or function: "
                                              \o Text(Head(tokens)))
                 ELSE CheckTokens(Tail(tokens))

\* str.strip and "not expression or not expression.strip()"
IsSpace(ch) == ch = " "
Blank(text) == \A i \in 1..Len(text) : IsSpace(text[i])
strip(text) ==
    IF Blank(text) THEN <<>>
    ELSE LET first == CHOOSE i \in 1..Len(text) :
                          ~IsSpace(text[i]) /\ \A j \in 1..(i - 1) : IsSpace(text[j])
             last == CHOOSE i \in 1..Len(text) :
                         ~IsSpace(text[i]) /\ \A j \in (i + 1)..Len(text) : IsSpace(text[j])
         IN SubSeq(text, first, last)

\* CalculatorTool._validate_expression, lines 64-107.  Count is
\* expression.count(ch), line 100; DividesByLiteralZero is
\* re.search(r'/\s*0(?![.\d])', expression), line 104
_validate_expression(expression) ==
    LET checked == CheckTokens(Tokens(expression))
        Count(ch) == Cardinality({i \in 1..Len(expression) : expression[i] = ch})
        DividesByLiteralZero ==
            \E i \in 1..Len(expression), j \in 1..Len(expression) :
                /\ i < j
                /\ expression[i] = "/"
                /\ \A k \in (i + 1)..(j - 1) : IsSpace(expression[k])
                /\ expression[j] = "0"
                /\ j < Len(expression) =>
                       expression[j + 1] \notin DigitChars \cup {"."}
    IN IF Blank(expression)
       THEN Validation(None, FALSE, "Expression cannot be empty")
       ELSE IF checked.raised # None \/ ~checked.is_valid
            THEN checked
            ELSE IF Count("(") # Count(")")
                 THEN Validation(None, FALSE, "Unbalanced parentheses")
                 ELSE IF DividesByLiteralZero
                      THEN Validation(None, FALSE, "Division by zero")
                      ELSE Validation(None, TRUE, None)

\* CalculatorTool._preprocess_expression, lines 109-125: replace('^', '**')
\* and then strip
_preprocess_expression(expression) ==
    LET RECURSIVE ReplaceCaret(_)
        ReplaceCaret(text) ==
            IF text = <<>> THEN <<>>
            ELSE (IF Head(text) = "^" THEN <<"*", "*">> ELSE <<Head(text)>>)
                 \o ReplaceCaret(Tail(text))
    IN strip(ReplaceCaret(expression))

\* float(sympy.sympify(text).evalf()), line 235, on the texts validation
\* lets through, which are digits and blanks: one integer literal is
\* evaluated (several zeros are one, a zero before another digit is none),
\* anything else is a syntax error.  NumberValue is the number a run of
\* digits denotes
sympify(text) ==
    LET DigitValue(ch) ==
            CASE ch = "0" -> 0 [] ch = "1" -> 1 [] ch = "2" -> 2 [] ch = "3" -> 3
              [] ch = "4" -> 4 [] ch = "5" -> 5 [] ch = "6" -> 6 [] ch = "7" -> 7
              [] ch = "8" -> 8 [] ch = "9" -> 9
        RECURSIVE NumberValue(_)
        NumberValue(digits) ==
            IF digits = <<>> THEN 0
            ELSE 10 * NumberValue(SubSeq(digits, 1, Len(digits) - 1))
                 + DigitValue(digits[Len(digits)])
        IsLiteral ==
            /\ IsNumber(text)
            /\ text[1] = "0" => \A i \in 1..Len(text) : text[i] = "0"
    IN IF IsLiteral
       THEN [ok |-> TRUE, result |-> NumberValue(text), error |-> None]
       ELSE [ok |-> FALSE, result |-> 0,
             error |-> "Sympify of expression '" \o Text(text)
                       \o "' failed, because of exception being raised"]

\* CalculatorTool._generate_steps, lines 127-196, for an expression without
\* operators (lines 191-194); result is printed as a float
_generate_steps(expression, result) ==
    << "Calculate: " \o Text(expression),
       "Result: " \o ToString(result) \o ".0" >>

\* CalculatorTool.execute, lines 198-255; the validation of line 220 is
\* outside the try of line 233, so that the re.error raised inside it
\* leaves execute as it is
CalculatorTool_execute(inputs_) ==
    LET expression == Get(inputs_, "expression", <<>>)
        validation == _validate_expression(expression)
        evaluated == sympify(_preprocess_expression(expression))
        details == [expression |-> expression]
    IN IF validation.raised # None
       THEN [ToolError(validation.raised, EmptyMapping)
                 EXCEPT !.exception = "re.error", !.code = None]
       ELSE IF ~validation.is_valid
            THEN ToolError("Invalid expression: " \o validation.error_message, details)
            ELSE IF ~evaluated.ok
                 THEN ToolError("Calculation failed: " \o evaluated.error, details)
                 ELSE Outcome(TRUE,
                              [result |-> evaluated.result,
                               steps |-> _generate_steps(expression, evaluated.result)],
                              None)

(***************************************************************************)
(* State                                                                   *)
(***************************************************************************)
VARIABLES
    agents,          \* Runner.agents: names in the agent registry
    tools,           \* Runner.tools: names in the tool registry
    request_id,      \* Runner.request_id
    trace_id,        \* Runner.trace_id
    sessions,        \* SessionService.sessions
    pc,              \* process_query: "idle", "running", "returned", "raised"
    query,           \* process_query argument
    session_id,      \* process_query argument (NoSession: None or "")
    session_state,   \* process_query local, lines 254-257
    final_response,  \* process_query locals, lines 271-274
    agent_used,
    tool_used,
    tool_results,
    raised,          \* text of the exception process_query raised, or None
    stack,           \* run_agent activations, innermost last
    event,           \* loop variable of the innermost run_agent (line 166)
    out,             \* event yielded by run_agent to process_query, not yet seen
    calls,           \* number of process_query calls started
    \* history of the current call
    sessions0,       \* the store when the call started
    observed,        \* events process_query has seen
    emitted,         \* <<agent, event>> for everything agents yielded
    executed,        \* the calls of tool.execute: <<tool name, outcome>>
    performed,       \* what the agents did: lexical scoring, oracle calls
    received,        \* values agents were resumed with while awaiting a result
    \* the parts the Runner uses, when they are exercised on their own
    session_updates, \* SessionService.update_session_state argument
    inputs,          \* BaseTool.execute argument
    generating,      \* GeminiClient.generate_text activations, one per caller
    \* the event loop
    suspended        \* process_query calls that are not running

vars == <<agents, tools, request_id, trace_id, sessions, pc, query, session_id,
          session_state, final_response, agent_used, tool_used, tool_results,
          raised, stack, event, out, calls, sessions0, observed, emitted,
          executed, performed, received, session_updates, inputs, generating,
          suspended>>

\* the Runner's fields, fixed at construction (lines 121-125)
registry == <<agents, tools, request_id, trace_id>>
pq_locals == <<session_state, final_response, agent_used, tool_used, tool_results>>
history == <<sessions0, observed, emitted, executed, performed, received>>
\* what a step of process_query or run_agent leaves alone
aside == <<session_updates, inputs, generating, suspended>>

NoQuery == Q("<no query>", TRUE, 0, 0, FALSE, FALSE, FALSE, FALSE)

\* a run_agent activation: the agent it runs, where run_agent is suspended
\* (rpc), the seven fields of its context (query, request_id, session_id,
\* trace_id, session_state, metadata, extracted_context), and
\* the agent generator's suspension point and locals (analysis is what the
\* classification oracle replied to the TutorAgent's question; best_agent,
\* confidence, scores are the TutorAgent's locals of line 137)
Frame(agent_name) ==
    [agent_name |-> agent_name, rpc |-> "entry", apc |-> "start",
     request_id |-> None, trace_id |-> None,
     query |-> NoQuery, session_id |-> NoSession, session_state |-> EmptyMapping,
     metadata |-> EmptyMapping,
     awaiting |-> FALSE, last_result |-> NoEvent, did |-> <<>>, extracted_context |-> NoCtx,
     analysis |-> NoReply, best_agent |-> None, confidence |-> 0, scores |-> NoScores,
     constant_result |-> None, formula_result |-> None,
     calculation_result |-> None, tools_used |-> <<>>]

\* InvocationContext(...), src/models/adk.py lines 18-28
InvocationContext(q, rid, sid, tid, state, metadata, extracted_context) ==
    [query |-> q, request_id |-> rid, session_id |-> sid, trace_id |-> tid,
     session_state |-> state, metadata |-> metadata,
     extracted_context |-> extracted_context]

\* run_agent(agent_name, context): the activation that runs an agent on a
\* context
Invoke(agent_name, context) ==
    [Frame(agent_name) EXCEPT !.query = context.query,
                              !.request_id = context.request_id,
                              !.session_id = context.session_id,
                              !.trace_id = context.trace_id,
                              !.session_state = context.session_state,
                              !.metadata = context.metadata,
                              !.extracted_context = context.extracted_context]

\* the process_query independent part of the state after construction
Idle ==
    /\ pc = "idle"
    /\ query = NoQuery
    /\ session_id = NoSession
    /\ session_state = EmptyMapping
    /\ final_response = None
    /\ agent_used = "TutorAgent"
    /\ tool_used = None
    /\ tool_results = NoResults
    /\ raised = None
    /\ stack = <<>>
    /\ event = NoEvent
    /\ out = NoEvent
    /\ calls = 0
    /\ observed = <<>>
    /\ emitted = <<>>
    /\ executed = <<>>
    /\ performed = <<>>
    /\ received = <<>>

Init ==
    /\ \E r \in Runners :
          /\ agents = r.agents
          /\ tools = r.tools
          /\ request_id = r.request_id
          /\ trace_id = r.trace_id
    /\ sessions = [i \in {} |-> EmptyMapping]
    /\ sessions0 = sessions
    /\ session_updates = EmptyMapping
    /\ inputs = EmptyMapping
    /\ generating = [c \in Callers |-> NotCalled]
    /\ suspended = [sid \in {} |-> None]
    /\ Idle

(***************************************************************************)
(* Runner.process_query, lines 254-277: read the session state, build the  *)
(* context, initialise the locals and start iterating run_agent("Tutor-    *)
(* Agent").                                                                *)
(***************************************************************************)
StartQuery(q, sid) ==
    /\ pc \in {"idle", "returned", "raised"}
    /\ calls < MaxCalls
    /\ calls' = calls + 1
    /\ pc' = "running"
    /\ query' = q
    /\ session_id' = sid
    /\ session_state' = IF HasSession(sid)
                         THEN get_session_state(sessions, sid)
                         ELSE EmptyMapping
    /\ final_response' = None
    /\ agent_used' = "TutorAgent"
    /\ tool_used' = None
    /\ tool_results' = NoResults
    /\ raised' = None
    /\ stack' = <<Invoke("TutorAgent",
                         InvocationContext(q, request_id, sid, trace_id, session_state',
                                           EmptyMapping, NoCtx))>>
    /\ event' = NoEvent
    /\ out' = NoEvent
    /\ sessions0' = sessions
    /\ observed' = <<>>
    /\ emitted' = <<>>
    /\ executed' = <<>>
    /\ performed' = <<>>
    /\ received' = <<>>
    /\ sessions' = IF HasSession(sid) THEN StoreAfterGet(sessions, sid) ELSE sessions
    /\ UNCHANGED <<registry, aside>>

(***************************************************************************)
(* TutorAgent (src/agents/tutor_agent.py)                                  *)
(***************************************************************************)
\* variant: a count of at least twice the other one qualifies
Qualifies_AtLeastDouble(own, other) == own > 0 /\ own >= 2 * other

\* lines 94 and 99: "count > 0 and count > 2 * other_count"
Qualifies(own, other) == own > 0 /\ own > 2 * other

\* variant: the sum starts from 0.5
LexicalConfidence_FromHalf(count) ==
    IF 5000 + 1000 * count < 9500 THEN 5000 + 1000 * count ELSE 9500

\* variant: the sum is not capped
LexicalConfidence_Uncapped(count) ==
    IF count \in {1, 2} THEN 7000 + 1000 * count - 1 ELSE 7000 + 1000 * count

\* min(0.7 + 0.1 * count, 0.95).  FloatSum is 0.7 + 0.1 * count as the
\* binary floating point sum of lines 95 and 100: for count 1 and 2 the sums
\* are 0.7999999999999999 and 0.8999999999999999, the doubles next below 0.8
\* and 0.9, and from count 3 on the sum is at least 1.0.  The rounding error
\* is counted as one ten-thousandth, so that a comparison with a threshold
\* comes out as it does in the code.
LexicalConfidence(count) ==
    LET Min(a, b) == IF a < b THEN a ELSE b
        FloatSum ==
            IF count \in {1, 2} THEN 7000 + 1000 * count - 1 ELSE 7000 + 1000 * count
    IN Min(FloatSum, 9500)

\* TutorAgent._analyze_query_intent, lines 86-106
_analyze_query_intent(q, reply) ==
    IF Qualifies(q.math_count, q.physics_count)
    THEN LET confidence == LexicalConfidence(q.math_count)
         IN Intent(TRUE, "MathAgent", confidence,
                   Scores(confidence, One - confidence), FALSE)
    ELSE IF Qualifies(q.physics_count, q.math_count)
         THEN LET confidence == LexicalConfidence(q.physics_count)
              IN Intent(TRUE, "PhysicsAgent", confidence,
                        Scores(One - confidence, confidence), FALSE)
         ELSE analyze_query_intent(reply, available_agents)

\* options built at lines 178-184 from the keys of the score mapping
ClarificationOptions(scores) ==
    IF scores.MathAgent # Absent /\ scores.PhysicsAgent # Absent
    THEN "Mathematics, Physics"
    ELSE IF scores.MathAgent # Absent THEN "Mathematics"
    ELSE IF scores.PhysicsAgent # Absent THEN "Physics"
    ELSE "[]"

\* what one resumption of an agent generator produces: the yielded value
\* and the new frame, or StopAsyncIteration (stop), or an exception that
\* leaves run (raised, with its text)
Yield(ev, f) ==
    [stop |-> FALSE, raised |-> FALSE, exception |-> None, event |-> ev, frame |-> f]
Stop(f) ==
    [stop |-> TRUE, raised |-> FALSE, exception |-> None, event |-> NoEvent, frame |-> f]
Raise(e, f) ==
    [stop |-> TRUE, raised |-> TRUE, exception |-> e, event |-> NoEvent, frame |-> f]

\* the exceptions raised inside the agents' run, by their text (abridged)
OracleGenerateError == "Failed to generate text"
AttributeErrorText == "'NoneType' object has no attribute 'event_type'"

\* an exception was raised inside the try of the agent's run
Raising(f) ==
    [f EXCEPT !.apc = "done",
              !.did = Append(@, "exception in " \o f.agent_name \o ".run")]

\* variant: run has no except clause
Except_Propagated(f, e) == Raise(e, Raising(f))

\* "except Exception as e: yield ErrorEvent(...)", the last statement of
\* run, with the error_code and the error_message prefix of the agent:
\* tutor_agent.py 209-216, math_agent.py 265-272, physics_agent.py 486-493
Except(f, e) ==
    LET AgentErrorCode ==
            IF f.agent_name = "TutorAgent" THEN "TUTOR_AGENT_ERROR"
            ELSE IF f.agent_name = "MathAgent" THEN "MATH_AGENT_ERROR"
            ELSE "PHYSICS_AGENT_ERROR"
        AgentErrorPrefix ==
            IF f.agent_name = "TutorAgent" THEN "Error in Tutor Agent: "
            ELSE IF f.agent_name = "MathAgent" THEN "Error in Math Agent: "
            ELSE "Error in Physics Agent: "
    IN Yield(ErrorEvent(AgentErrorCode, AgentErrorPrefix \o e), Raising(f))

\* stands for the ValidationError a rejected constructor call raises
ValidationError == Ev("<ValidationError>", None, None, None, None, NoResults, 0, NoCtx)

\* variant: the emptiness test without the strip
IsBlank_NoStrip(q) == q.text = ""

\* lines 124-133
IsBlank(q) == q.blank

\* variant: the constructor accepts every confidence
MakeDelegation_Unvalidated(target_agent, confidence, context) ==
    DelegationEvent(target_agent, confidence, context)

\* constructing a DelegationEvent (lines 146-152, 164-170); a rejected
\* confidence raises inside the try
MakeDelegation(target_agent, confidence, context) ==
    \* pydantic validation of DelegationEvent.confidence (ge=0.0, le=1.0),
    \* src/models/adk.py line 36
    IF confidence >= 0 /\ confidence <= One
    THEN DelegationEvent(target_agent, confidence, context)
    ELSE ValidationError

\* variant: the lower bounds of the bands are exclusive
TutorDecision_Exclusive(intent) ==
    IF intent.confidence > HIGH_CONFIDENCE_THRESHOLD
    THEN MakeDelegation(intent.best_agent, intent.confidence,
                        [scores |-> intent.scores, ambiguity_note |-> FALSE])
    ELSE IF intent.confidence > DEFAULT_CONFIDENCE_THRESHOLD
    THEN MakeDelegation(intent.best_agent, intent.confidence,
                        [scores |-> intent.scores, ambiguity_note |-> TRUE])
    ELSE IF intent.confidence > LOW_CONFIDENCE_THRESHOLD
    THEN ClarificationEvent(ClarificationOptions(intent.scores))
    ELSE GeneralResponseEvent("decline")

\* lines 142-207, the four bands
TutorDecision(intent) ==
    IF intent.confidence >= HIGH_CONFIDENCE_THRESHOLD
    THEN MakeDelegation(intent.best_agent, intent.confidence,
                        [scores |-> intent.scores, ambiguity_note |-> FALSE])
    ELSE IF intent.confidence >= DEFAULT_CONFIDENCE_THRESHOLD
    THEN MakeDelegation(intent.best_agent, intent.confidence,
                        [scores |-> intent.scores, ambiguity_note |-> TRUE])
    ELSE IF intent.confidence >= LOW_CONFIDENCE_THRESHOLD
    THEN ClarificationEvent(ClarificationOptions(intent.scores))
    ELSE GeneralResponseEvent("decline")

\* TutorAgent.run, lines 108-216
TutorRun(f, q, reply) ==
    IF f.apc = "start"
    THEN IF IsBlank(q)
         THEN Yield(ErrorEvent("EMPTY_QUERY", "Query cannot be empty"),
                    [f EXCEPT !.apc = "done"])
         \* did records what _analyze_query_intent did: the lexical scoring,
         \* and the call of the classification oracle when it was inconclusive
         ELSE LET intent == _analyze_query_intent(q, reply)
                  analyzed == [f EXCEPT !.did = @ \o (IF intent.oracle_called
                                                   THEN <<"lexical_scoring", "oracle.classify">>
                                                   ELSE <<"lexical_scoring">>),
                                        !.analysis = IF intent.oracle_called
                                                     THEN reply ELSE NoReply]
                  assigned == [analyzed EXCEPT !.apc = "done",
                                               !.best_agent = intent.best_agent,
                                               !.confidence = intent.confidence,
                                               !.scores = intent.scores]
                  decision == TutorDecision(intent)
              IN IF ~intent.ok
                 THEN Except(analyzed, "Failed to analyze query intent")
                 ELSE IF decision = ValidationError
                      THEN Except(assigned, "1 validation error for DelegationEvent")
                      ELSE Yield(decision, assigned)
    ELSE Stop(f)

(***************************************************************************)
(* MathAgent (src/agents/math_agent.py).  Suspension points of run:        *)
(*   "invoked"  at the yield of the ToolInvocation, line 203               *)
(*   "waiting"  at "tool_result = yield", line 211                         *)
(*   "done"     at the yield of a FinalResponse or Error                   *)
(* sent is the value the generator is resumed with.                        *)
(***************************************************************************)
\* _generate_response followed by the FinalResponse, or the Error of
\* lines 265-272 when the oracle raises
MathRespond(f, g, tool_used_, tool_results_) ==
    IF g.ok
    THEN Yield(FinalResponseEvent(g.text, "MathAgent", tool_used_, tool_results_),
               [f EXCEPT !.apc = "done", !.did = Append(@, "oracle.generate")])
    ELSE Except([f EXCEPT !.did = Append(@, "oracle.generate")], OracleGenerateError)

\* lines 213-251: what run does with the value it was resumed with
MathHandleResult(f, sent, g) ==
    IF sent = NoneEvent
    THEN \* None has no attribute event_type: AttributeError, lines 265-272
         Except(f, AttributeErrorText)
    ELSE IF sent.event_type = "tool_result"
         THEN IF sent.error # None
              THEN MathRespond(f, g, None, NoResults)
              ELSE MathRespond(f, g, "CalculatorTool", SingleResult(sent.payload))
         ELSE MathRespond(f, g, None, NoResults)

\* MathAgent.run, lines 175-272
MathRun(f, q, sent, g) ==
    IF f.apc = "start"
    THEN IF q.m_calc
         THEN Yield(ToolInvocationEvent("CalculatorTool", "expression"),
                    [f EXCEPT !.apc = "invoked"])
         ELSE MathRespond(f, g, None, NoResults)
    ELSE IF f.apc = "invoked"
    THEN \* the value sent into line 203 is dropped; line 211 yields None
         Yield(NoneEvent, [f EXCEPT !.apc = "waiting", !.awaiting = TRUE])
    ELSE IF f.apc = "waiting"
    THEN MathHandleResult([f EXCEPT !.awaiting = FALSE], sent, g)
    ELSE Stop(f)

(***************************************************************************)
(* PhysicsAgent (src/agents/physics_agent.py): three sections of the same  *)
(* shape (constant lookup, formula lookup, calculation), then the          *)
(* response.  Suspension points: "<section>_invoked", "<section>_waiting", *)
(* "done".                                                                 *)
(***************************************************************************)
\* lines 461-475
PhysicsToolUsed(tools_used) ==
    IF Len(tools_used) = 0 THEN None
    ELSE IF Len(tools_used) = 1 THEN tools_used[1][1]
    ELSE IF Len(tools_used) = 2
         THEN IF tools_used[1][1] = "LookupTool" /\ tools_used[2][1] = "LookupTool"
              THEN "LookupTool, LookupTool"
              ELSE "LookupTool, CalculatorTool"
         ELSE "LookupTool, LookupTool, CalculatorTool"

PhysicsToolResults(f) ==
    IF Len(f.tools_used) = 0 THEN NoResults
    ELSE IF Len(f.tools_used) = 1 THEN SingleResult(f.tools_used[1][2])
    ELSE CompositeResult(f.constant_result, f.formula_result, f.calculation_result)

\* lines 453-484, or the Error of lines 486-493 when the oracle raises
PhysicsRespond(f, g) ==
    IF g.ok
    THEN Yield(FinalResponseEvent(g.text, "PhysicsAgent",
                                  PhysicsToolUsed(f.tools_used), PhysicsToolResults(f)),
               [f EXCEPT !.apc = "done", !.did = Append(@, "oracle.generate")])
    ELSE Except([f EXCEPT !.did = Append(@, "oracle.generate")], OracleGenerateError)

\* lines 422-438
PhysicsCalcSection(f, q, g) ==
    IF q.p_calc
    THEN Yield(ToolInvocationEvent("CalculatorTool", "expression"),
               [f EXCEPT !.apc = "calc_invoked"])
    ELSE PhysicsRespond(f, g)

\* lines 392-407
PhysicsFormulaSection(f, q, g) ==
    IF q.p_formula
    THEN Yield(ToolInvocationEvent("LookupTool", "formula"),
               [f EXCEPT !.apc = "formula_invoked"])
    ELSE PhysicsCalcSection(f, q, g)

\* lines 362-377
PhysicsConstSection(f, q, g) ==
    IF q.p_const
    THEN Yield(ToolInvocationEvent("LookupTool", "constant"),
               [f EXCEPT !.apc = "const_invoked"])
    ELSE PhysicsFormulaSection(f, q, g)

\* variant: a result is recorded whether or not it carries an error
PhysicsRecord_Always(f, sent, tool_name, field) ==
    IF sent.event_type = "tool_result"
    THEN [f EXCEPT ![field] = sent.payload,
                   !.tools_used = Append(@, <<tool_name, sent.payload>>)]
    ELSE f

\* lines 382-390, 412-420, 443-451: record a successful result
PhysicsRecord(f, sent, tool_name, field) ==
    IF sent.event_type = "tool_result" /\ sent.error = None
    THEN [f EXCEPT ![field] = sent.payload,
                   !.tools_used = Append(@, <<tool_name, sent.payload>>)]
    ELSE f

\* PhysicsAgent.run, lines 340-493
PhysicsRun(f, q, sent, g) ==
    LET resumed == [f EXCEPT !.awaiting = FALSE]
        attribute_error == Except(resumed, AttributeErrorText)
    IN
    IF f.apc = "start" THEN PhysicsConstSection(f, q, g)
    ELSE IF f.apc = "const_invoked"
    THEN Yield(NoneEvent, [f EXCEPT !.apc = "const_waiting", !.awaiting = TRUE])
    ELSE IF f.apc = "formula_invoked"
    THEN Yield(NoneEvent, [f EXCEPT !.apc = "formula_waiting", !.awaiting = TRUE])
    ELSE IF f.apc = "calc_invoked"
    THEN Yield(NoneEvent, [f EXCEPT !.apc = "calc_waiting", !.awaiting = TRUE])
    ELSE IF f.apc = "const_waiting"
    THEN IF sent = NoneEvent THEN attribute_error
         ELSE PhysicsFormulaSection(
                  PhysicsRecord(resumed, sent, "LookupTool", "constant_result"), q, g)
    ELSE IF f.apc = "formula_waiting"
    THEN IF sent = NoneEvent THEN attribute_error
         ELSE PhysicsCalcSection(
                  PhysicsRecord(resumed, sent, "LookupTool", "formula_result"), q, g)
    ELSE IF f.apc = "calc_waiting"
    THEN IF sent = NoneEvent THEN attribute_error
         ELSE PhysicsRespond(
                  PhysicsRecord(resumed, sent, "CalculatorTool", "calculation_result"), g)
    ELSE Stop(f)

\* agent.run(context) of the agent registered under a name
AgentRun(f, q, sent, g, reply) ==
    IF f.agent_name = "TutorAgent" THEN TutorRun(f, q, reply)
    ELSE IF f.agent_name = "MathAgent" THEN MathRun(f, q, sent, g)
    ELSE PhysicsRun(f, q, sent, g)

(***************************************************************************)
(* Tools, seen from the Runner: execute returns a result mapping or raises *)
(***************************************************************************)
ToolOutcomes(tool_name) ==
    IF tool_name = "CalculatorTool"
    THEN { Outcome(TRUE, "{result: 4}", None), Outcome(FALSE, None, "Invalid expression") }
    ELSE { Outcome(TRUE, "{key: c}", None), Outcome(FALSE, None, "not found") }

(***************************************************************************)
(* Runner.run_agent (src/utils/adk.py, lines 134-238)                      *)
(***************************************************************************)
Top == stack[Len(stack)]
SetTop(f) == [stack EXCEPT ![Len(stack)] = f]

\* rpc: "entry" not started; "loop" suspended inside the async-for body or
\* about to ask the agent for its next event; "return" the next resumption
\* ends the generator
RunnerReady == pc = "running" /\ stack # <<>> /\ out = NoEvent

\* variant: the name is tested against the known agent classes instead of
\* the registry
AgentRegistered_AnyKnown(agent_name, registry_) == agent_name \in AllAgents

\* line 152
AgentRegistered(agent_name, registry_) == agent_name \in registry_

\* variant: the Runner gives the events it creates identifiers of their own
RunnerEvent_FreshIds(ev) == Stamp(ev, "uuid4", "uuid4")

\* "request_id=self.request_id, trace_id=self.trace_id" of the events the
\* Runner creates: lines 157-158, 202-203, 215-216, 223-224, 236-237
RunnerEvent(ev) == Stamp(ev, request_id, trace_id)

\* lines 152-160
AgentNotFound ==
    /\ RunnerReady /\ event = NoEvent
    /\ Top.rpc = "entry"
    /\ ~AgentRegistered(Top.agent_name, agents)
    /\ out' = RunnerEvent(ErrorEvent("AGENT_NOT_FOUND",
                                     "Agent not found: " \o Top.agent_name))
    /\ stack' = SetTop([Top EXCEPT !.rpc = "return"])
    /\ UNCHANGED <<registry, aside, sessions, pc, query, session_id, pq_locals, raised,
                   event, calls, history>>

\* lines 162-165
AgentFound ==
    /\ RunnerReady /\ event = NoEvent
    /\ Top.rpc = "entry"
    /\ AgentRegistered(Top.agent_name, agents)
    /\ stack' = SetTop([Top EXCEPT !.rpc = "loop"])
    /\ UNCHANGED <<registry, aside, sessions, pc, query, session_id, pq_locals, raised,
                   event, out, calls, history>>

\* "async for event in agent.run(context)" resumes the generator through
\* __anext__, that is with None, whatever the Runner produced before
SentValue(last_result) == NoneEvent

\* lines 231-238
AgentExecutionErrorEvent(e) ==
    ErrorEvent("AGENT_EXECUTION_ERROR", "Agent execution failed: " \o e)

\* "request_id = context.request_id, trace_id = context.trace_id" and the
\* keyword arguments of every event an agent constructs (tutor_agent.py
\* 119-120, math_agent.py 186-187, physics_agent.py 351-352); None is no
\* event and carries nothing
AgentEvent(ev, f) ==
    IF ev = NoneEvent THEN NoneEvent ELSE Stamp(ev, f.request_id, f.trace_id)

\* line 166: ask the agent for its next event; an exception that leaves
\* agent.run is caught at line 231
ResumeAgent(g, reply) ==
    /\ LET sent == SentValue(Top.last_result)
           r == AgentRun(Top, Top.query, sent, g, reply)
           ev == AgentEvent(r.event, Top)
       IN /\ received' = IF Top.awaiting THEN Append(received, sent) ELSE received
          /\ performed' = performed \o SubSeq(r.frame.did, Len(Top.did) + 1,
                                               Len(r.frame.did))
          /\ IF r.stop
             THEN /\ stack' = SetTop([r.frame EXCEPT !.rpc = "return"])
                  /\ event' = NoEvent
                  /\ emitted' = emitted
                  /\ out' = IF r.raised
                            THEN RunnerEvent(AgentExecutionErrorEvent(r.exception))
                            ELSE out
             ELSE /\ stack' = SetTop(r.frame)
                  /\ event' = ev
                  /\ emitted' = Append(emitted, <<Top.agent_name, ev>>)
                  /\ out' = out
    /\ UNCHANGED <<registry, aside, sessions, pc, query, session_id, pq_locals, raised,
                   calls, sessions0, observed, executed>>

\* line 166 when the agent is the TutorAgent, which consults the
\* classification oracle
ResumeTutor(reply) ==
    /\ RunnerReady /\ event = NoEvent
    /\ Top.rpc = "loop"
    /\ Top.agent_name = "TutorAgent"
    /\ ResumeAgent(NoGen, reply)

\* line 166 when the agent is a specialist, which consults generate_text
ResumeSpecialist(g) ==
    /\ RunnerReady /\ event = NoEvent
    /\ Top.rpc = "loop"
    /\ Top.agent_name # "TutorAgent"
    /\ ResumeAgent(g, NoReply)

HandlerReady == RunnerReady /\ event # NoEvent /\ Top.rpc = "loop"

\* line 167 on an event that is None: event.event_type raises
\* AttributeError, caught at line 231; the generator ends after the yield
HandleNone ==
    /\ HandlerReady
    /\ event = NoneEvent
    /\ out' = RunnerEvent(AgentExecutionErrorEvent(AttributeErrorText))
    /\ event' = NoEvent
    /\ stack' = SetTop([Top EXCEPT !.rpc = "return"])
    /\ UNCHANGED <<registry, aside, sessions, pc, query, session_id, pq_locals, raised,
                   calls, history>>

\* variant: the target agent runs on the delegating context itself
HandleDelegation_SameContext ==
    /\ HandlerReady
    /\ event.event_type = "delegation"
    /\ stack' = Append(stack,
           Invoke(event.agent,
                  InvocationContext(Top.query, Top.request_id, Top.session_id,
                                    Top.trace_id, Top.session_state, Top.metadata,
                                    Top.extracted_context)))
    /\ event' = NoEvent
    /\ UNCHANGED <<registry, aside, sessions, pc, query, session_id, pq_locals, raised,
                   out, calls, history>>

\* lines 170-188: run the target agent in a new context
HandleDelegation ==
    /\ HandlerReady
    /\ event.event_type = "delegation"
    /\ stack' = Append(stack,
           Invoke(event.agent,
                  InvocationContext(Top.query, Top.request_id, Top.session_id,
                                    Top.trace_id, Top.session_state, Top.metadata,
                                    event.context)))
    /\ event' = NoEvent
    /\ UNCHANGED <<registry, aside, sessions, pc, query, session_id, pq_locals, raised,
                   out, calls, history>>

\* variant: the registry test is missing
ToolRegistered_Unchecked(tool_name, registry_) == TRUE

\* line 197
ToolRegistered(tool_name, registry_) == tool_name \in registry_

\* lines 196-205
ToolNotFound ==
    /\ HandlerReady
    /\ event.event_type = "tool_invocation"
    /\ ~ToolRegistered(event.tool, tools)
    /\ out' = RunnerEvent(ErrorEvent("TOOL_NOT_FOUND",
                                     "Tool not found: " \o event.tool))
    /\ event' = NoEvent
    /\ UNCHANGED <<registry, aside, sessions, pc, query, session_id, pq_locals, raised,
                   stack, calls, history>>

\* lines 218-226: the event the Runner yields when tool.execute raises
\* variant: the failure is not caught at line 218 and reaches line 231
ToolFailureEvent_Propagated(tool_name, error) == AgentExecutionErrorEvent(error)
ToolFailureEvent(tool_name, error) == ToolResultEvent(tool_name, "{}", error)

\* lines 207-226
ToolExecute(o) ==
    /\ HandlerReady
    /\ event.event_type = "tool_invocation"
    /\ ToolRegistered(event.tool, tools)
    /\ o \in ToolOutcomes(event.tool)
    /\ executed' = Append(executed, <<event.tool, o>>)
    /\ LET result_event ==
               RunnerEvent(IF o.ok THEN ToolResultEvent(event.tool, o.result, None)
                                   ELSE ToolFailureEvent(event.tool, o.error))
       IN /\ out' = result_event
          /\ stack' = SetTop([Top EXCEPT !.last_result = result_event])
    /\ event' = NoEvent
    /\ UNCHANGED <<registry, aside, sessions, pc, query, session_id, pq_locals, raised,
                   calls, sessions0, observed, emitted, performed, received>>

\* lines 229-230
PassThrough ==
    /\ HandlerReady
    /\ event # NoneEvent
    /\ event.event_type \notin {"delegation", "tool_invocation"}
    /\ out' = event
    /\ event' = NoEvent
    /\ UNCHANGED <<registry, aside, sessions, pc, query, session_id, pq_locals, raised,
                   stack, calls, history>>

(***************************************************************************)
(* Runner.process_query, lines 276-311                                     *)
(***************************************************************************)
\* variant: the check of line 298 is missing
NotResponse_Unchecked(response) == FALSE

\* "if not final_response", line 298: None and the empty text are falsy
NotResponse(response) == response = None \/ response = ""

\* variant: the answer and the agent are written by a later update
SessionUpdates_QueryOnly(q, response, agent) == [last_query |-> q.text]

\* lines 291-295
SessionUpdates(q, response, agent) ==
    [last_query |-> q.text, last_response |-> response, last_agent_used |-> agent]

\* variant: the update is applied to the store as the call read it at its
\* start, and the outcome is stored back
UpdateAfterLoop_Snapshot(sess, sid, q, response, agent) ==
    IF HasSession(sid)
    THEN update_session_state(sessions0, sid, SessionUpdates(q, response, agent))
    ELSE sess

\* lines 287-296
UpdateAfterLoop(sess, sid, q, response, agent) ==
    IF HasSession(sid)
    THEN update_session_state(sess, sid, SessionUpdates(q, response, agent))
    ELSE sess

\* lines 287-308, what follows the loop: the session update, then the
\* check for a final response, then the return
AfterLoop(response, agent) ==
    /\ sessions' = UpdateAfterLoop(sessions, session_id, query, response, agent)
    /\ IF NotResponse(response)
       THEN /\ pc' = "raised"
            /\ raised' = "No final response was generated"
       ELSE /\ pc' = "returned"
            /\ raised' = None
    /\ stack' = <<>>
    /\ event' = NoEvent
    /\ out' = NoEvent

\* lines 278-283 and then 287-308
ObserveFinalResponse ==
    /\ pc = "running" /\ out # NoEvent
    /\ out.event_type = "final_response"
    /\ observed' = Append(observed, out)
    /\ final_response' = out.payload
    /\ agent_used' = out.agent
    /\ tool_used' = out.tool
    /\ tool_results' = out.results
    /\ AfterLoop(out.payload, out.agent)
    /\ UNCHANGED <<registry, aside, query, session_id, session_state, calls, sessions0,
                   emitted, executed, performed, received>>

\* variant: the exception carries the error code only
ExceptionText_CodeOnly(error_code, error_message) == error_code

\* f"{event.error_code}: {event.error_message}", line 285
ExceptionText(error_code, error_message) == error_code \o ": " \o error_message

\* lines 284-285 and 309-311
ObserveError ==
    /\ pc = "running" /\ out # NoEvent
    /\ out.event_type = "error"
    /\ observed' = Append(observed, out)
    /\ pc' = "raised"
    /\ raised' = ExceptionText(out.error, out.payload)
    /\ stack' = <<>>
    /\ event' = NoEvent
    /\ out' = NoEvent
    /\ UNCHANGED <<registry, aside, sessions, query, session_id, pq_locals, calls,
                   sessions0, emitted, executed, performed, received>>

\* any other event: the loop asks run_agent for the next one
ObserveOther ==
    /\ pc = "running" /\ out # NoEvent
    /\ out.event_type \notin {"final_response", "error"}
    /\ observed' = Append(observed, out)
    /\ out' = NoEvent
    /\ UNCHANGED <<registry, aside, sessions, pc, query, session_id, pq_locals, raised,
                   stack, event, calls, sessions0, emitted, executed, performed,
                   received>>

\* a run_agent generator ends.  A nested one: the loop of lines 187-188 is
\* over and the delegating activation goes back to line 166.  The outermost
\* one: the loop of line 277 is over and lines 287-308 follow.
RunAgentEnds ==
    /\ RunnerReady /\ event = NoEvent
    /\ Top.rpc = "return"
    /\ IF Len(stack) > 1
       THEN /\ stack' = SubSeq(stack, 1, Len(stack) - 1)
            /\ UNCHANGED <<sessions, pc, raised, event, out>>
       ELSE AfterLoop(final_response, agent_used)
    /\ UNCHANGED <<registry, aside, query, session_id, pq_locals, calls, history>>

(***************************************************************************)
(* Another user of the shared SessionService writes between two calls; the *)
(* finished call's locals are gone by then.                                *)
(***************************************************************************)
UpdateSession(sid, updates) ==
    /\ pc \in {"idle", "returned", "raised"}
    /\ sessions' = update_session_state(sessions, sid, updates)
    /\ pc' = "idle"
    /\ query' = NoQuery
    /\ session_id' = NoSession
    /\ session_state' = EmptyMapping
    /\ final_response' = None
    /\ agent_used' = "TutorAgent"
    /\ tool_used' = None
    /\ tool_results' = NoResults
    /\ raised' = None
    /\ sessions0' = sessions'
    /\ observed' = <<>>
    /\ emitted' = <<>>
    /\ executed' = <<>>
    /\ performed' = <<>>
    /\ received' = <<>>
    /\ UNCHANGED <<registry, aside, stack, event, out, calls>>

Next ==
    \/ \E q \in Queries, sid \in SessionIds \cup {NoSession} : StartQuery(q, sid)
    \/ AgentNotFound
    \/ AgentFound
    \/ \E reply \in IntentReplies : ResumeTutor(reply)
    \/ \E g \in GenOutcomes : ResumeSpecialist(g)
    \/ HandleNone
    \/ HandleDelegation
    \/ ToolNotFound
    \/ \E o \in [ok : BOOLEAN, result : {None, "{result: 4}", "{key: c}"},
                 error : {None, "Invalid expression", "not found"}] : ToolExecute(o)
    \/ PassThrough
    \/ ObserveFinalResponse
    \/ ObserveError
    \/ ObserveOther
    \/ RunAgentEnds
    \/ \E sid \in SessionIds, u \in ExternalUpdates : UpdateSession(sid, u)

Spec == Init /\ [][Next]_vars

(***************************************************************************)
(* The SessionService used on its own: up to MaxServiceCalls calls of its  *)
(* three methods on a fresh store.  performed logs the calls, session_id   *)
(* and session_state hold the argument and the result of the last          *)
(* get_session_state, sessions0 the store before the last call.            *)
(***************************************************************************)
ServiceCall(method, sid) == method \o "(" \o sid \o ")"
ServiceReady == pc = "idle" /\ Len(performed) < MaxServiceCalls

\* lines 321-331
GetSessionState(sid) ==
    /\ ServiceReady
    /\ session_id' = sid
    /\ session_state' = get_session_state(sessions, sid)
    /\ session_updates' = EmptyMapping
    /\ sessions' = StoreAfterGet(sessions, sid)
    /\ sessions0' = sessions
    /\ performed' = Append(performed, ServiceCall("get_session_state", sid))
    /\ UNCHANGED <<registry, pc, query, final_response, agent_used, tool_used,
                   tool_results, raised, stack, event, out, calls, observed,
                   emitted, executed, received, inputs, generating,
                   suspended>>

\* lines 333-344
UpdateSessionState(sid, updates) ==
    /\ ServiceReady
    /\ session_id' = sid
    /\ session_state' = EmptyMapping
    /\ session_updates' = updates
    /\ sessions' = update_session_state(sessions, sid, updates)
    /\ sessions0' = sessions
    /\ performed' = Append(performed, ServiceCall("update_session_state", sid))
    /\ UNCHANGED <<registry, pc, query, final_response, agent_used, tool_used,
                   tool_results, raised, stack, event, out, calls, observed,
                   emitted, executed, received, inputs, generating,
                   suspended>>

\* lines 346-354
ClearSession(sid) ==
    /\ ServiceReady
    /\ session_id' = sid
    /\ session_state' = EmptyMapping
    /\ session_updates' = EmptyMapping
    /\ sessions' = clear_session(sessions, sid)
    /\ sessions0' = sessions
    /\ performed' = Append(performed, ServiceCall("clear_session", sid))
    /\ UNCHANGED <<registry, pc, query, final_response, agent_used, tool_used,
                   tool_results, raised, stack, event, out, calls, observed,
                   emitted, executed, received, inputs, generating,
                   suspended>>

SessionNext ==
    \/ \E sid \in SessionIds : GetSessionState(sid)
    \/ \E sid \in SessionIds, u \in ExternalUpdates \cup { [topic |-> "optics"], EmptyMapping } :
          UpdateSessionState(sid, u)
    \/ \E sid \in SessionIds : ClearSession(sid)

SessionSpec == Init /\ [][SessionNext]_vars

(***************************************************************************)
(* Routing: one call, followed up to the event the TutorAgent yields, for  *)
(* every pair of keyword counts up to MaxKeywords and a wider range of     *)
(* replies of the classification oracle.                                   *)
(***************************************************************************)
\* Confidences are the "confidence" values of a reply: around each
\* threshold, the ends of [0, 1] and values outside it
RoutingNext ==
    LET RoutingQueries ==
            { Q("question", FALSE, m, p, FALSE, FALSE, FALSE, FALSE) :
                  m \in 0..MaxKeywords, p \in 0..MaxKeywords }
        Confidences ==
            { -1000, 0, LOW_CONFIDENCE_THRESHOLD - 1, LOW_CONFIDENCE_THRESHOLD,
              DEFAULT_CONFIDENCE_THRESHOLD - 1, DEFAULT_CONFIDENCE_THRESHOLD,
              HIGH_CONFIDENCE_THRESHOLD - 1, HIGH_CONFIDENCE_THRESHOLD,
              One, One + 1, 12000 }
        RoutingReplies ==
            IntentReplies \cup
            { Reply(TRUE, a, c, Scores(c, c)) :
                  a \in available_agents, c \in Confidences }
    IN \/ \E q \in RoutingQueries : StartQuery(q, NoSession)
       \/ AgentFound
       \/ \E reply \in RoutingReplies : ResumeTutor(reply)

RoutingSpec == Init /\ [][RoutingNext]_vars

(***************************************************************************)
(* The tools called on their own: one call of execute on every input.      *)
(* executed holds the call and its outcome.                                *)
(***************************************************************************)
\* one call in a behaviour: no tool has been called and nothing else is
\* going on
LookupExecute(inp) ==
    /\ pc = "idle" /\ executed = <<>>
    /\ inputs' = inp
    /\ executed' = << <<"LookupTool", LookupTool_execute(inp)>> >>
    /\ UNCHANGED <<registry, sessions, pc, query, session_id, pq_locals, raised,
                   stack, event, out, calls, sessions0, observed, emitted,
                   performed, received, session_updates, generating, suspended>>

CalculatorExecute(inp) ==
    /\ pc = "idle" /\ executed = <<>>
    /\ inputs' = inp
    /\ executed' = << <<"CalculatorTool", CalculatorTool_execute(inp)>> >>
    /\ UNCHANGED <<registry, sessions, pc, query, session_id, pq_locals, raised,
                   stack, event, out, calls, sessions0, observed, emitted,
                   performed, received, session_updates, generating, suspended>>

\* the inputs: keys of at most MaxKeyLen characters with a type or without,
\* expressions of at most MaxExprLen characters, and mappings without the
\* key or the expression
ToolNext ==
    LET Strings(chars, n) == UNION { [1..k -> chars] : k \in 0..n }
        KeyChars == {"G", "m", "e", "E", "w", "o"}
        ExprChars == {"0", "2", "x", "+", "/", "^", "(", ")", " "}
        LookupInputs ==
            { [key |-> k, type |-> t] :
                  k \in Strings(KeyChars, MaxKeyLen),
                  t \in {"constant", "formula", "definition"} }
            \cup { [key |-> k] : k \in Strings(KeyChars, MaxKeyLen) }
            \cup { [type |-> "formula"] }
        CalculatorInputs ==
            { [expression |-> e] : e \in Strings(ExprChars, MaxExprLen) }
            \cup { EmptyMapping }
    IN \/ \E inp \in LookupInputs : LookupExecute(inp)
       \/ \E inp \in CalculatorInputs : CalculatorExecute(inp)

ToolSpec == Init /\ [][ToolNext]_vars

(***************************************************************************)
(* generate_text called by the coroutines of one event loop.  A coroutine  *)
(* runs from one await to the next; while one of them is inside time.sleep *)
(* the thread of the loop is inside it too and nothing else runs.          *)
(***************************************************************************)
LoopFree == \A c \in Callers : generating[c].at # "sleeping"

\* lines 95-106: the call runs up to the first await
GenerateText(c, retry_count, retry_delay) ==
    /\ LoopFree
    /\ generating[c].at = "idle"
    /\ generating' = [generating EXCEPT ![c] =
                         [NotCalled EXCEPT !.at = "awaiting",
                                           !.retry_count = retry_count,
                                           !.retry_delay = retry_delay]]
    /\ UNCHANGED <<registry, sessions, pc, query, session_id, pq_locals, raised,
                   stack, event, out, calls, history, session_updates, inputs,
                   suspended>>

\* lines 106-122: the response or the exception arrives and the coroutine
\* runs on, to the return, the raise or into time.sleep
AttemptEnds(c, g) ==
    /\ LoopFree
    /\ generating[c].at = "awaiting"
    /\ generating' = [generating EXCEPT ![c] = AttemptEnded(generating[c], g)]
    /\ UNCHANGED <<registry, sessions, pc, query, session_id, pq_locals, raised,
                   stack, event, out, calls, history, session_updates, inputs,
                   suspended>>

\* line 122 returns and line 106 is reached again
SleepEnds(c) ==
    /\ generating[c].at = "sleeping"
    /\ generating' = [generating EXCEPT ![c].at = "awaiting",
                                        ![c].attempt = @ + 1]
    /\ UNCHANGED <<registry, sessions, pc, query, session_id, pq_locals, raised,
                   stack, event, out, calls, history, session_updates, inputs,
                   suspended>>

\* retry_count from none to MaxRetries (3 is the default), retry_delay of
\* one and two seconds
GenerateNext ==
    \/ \E c \in Callers, rc \in 0..MaxRetries, rd \in {1, 2} : GenerateText(c, rc, rd)
    \/ \E c \in Callers, g \in AttemptOutcomes : AttemptEnds(c, g)
    \/ \E c \in Callers : SleepEnds(c)

GenerateSpec == Init /\ [][GenerateNext]_vars

\* every attempt of the oracle ends and every sleep ends
GenerateLiveSpec ==
    /\ GenerateSpec
    /\ \A c \in Callers :
          /\ WF_vars(\E g \in AttemptOutcomes : AttemptEnds(c, g))
          /\ WF_vars(SleepEnds(c))

(***************************************************************************)
(* Several process_query calls on one event loop, each on a session id of  *)
(* its own, sharing the Runner and its SessionService.  One call runs at   *)
(* a time; it gives way only where a coroutine really waits, which is the  *)
(* network call of an oracle inside an agent (SessionService's methods     *)
(* and the tools' execute contain no await that suspends).  The variables  *)
(* of process_query and run_agent hold the call that is running;           *)
(* suspended holds the others, by session id, finished ones included.      *)
(***************************************************************************)
ConcurrentReplies ==
    { Reply(FALSE, None, 0, NoScores),
      Reply(TRUE, "MathAgent", 9500, Scores(9500, 500)),
      Reply(TRUE, "MathAgent", 3000, NoScores) }

\* the call that holds the loop
Running ==
    [pc |-> pc, query |-> query, session_id |-> session_id,
     session_state |-> session_state, final_response |-> final_response,
     agent_used |-> agent_used, tool_used |-> tool_used,
     tool_results |-> tool_results, raised |-> raised, stack |-> stack,
     event |-> event, out |-> out, sessions0 |-> sessions0,
     observed |-> observed, emitted |-> emitted, executed |-> executed,
     performed |-> performed, received |-> received]

\* the next resumption of the innermost agent asks an oracle: the coroutine
\* waits for the reply inside agent.run (tutor_agent.py line 137,
\* math_agent.py line 173, physics_agent.py line 338)
AwaitsOracle ==
    /\ RunnerReady /\ event = NoEvent
    /\ Top.rpc = "loop"
    /\ \E g \in GenOutcomes, reply \in ConcurrentReplies :
          LET r == AgentRun(Top, query, SentValue(Top.last_result), g, reply)
          IN \E i \in (Len(Top.did) + 1)..Len(r.frame.did) :
                 r.frame.did[i] \in {"oracle.classify", "oracle.generate"}

\* a new call starts when the loop is free, on a session id no other call
\* of the loop uses
StartConcurrent(q, sid) ==
    /\ pc = "idle"
    /\ HasSession(sid)
    /\ sid \notin DOMAIN suspended
    /\ StartQuery(q, sid)

\* the running call reaches the await of an oracle, or its end: the loop
\* is free for another call; key is the name the call is kept under
ParkAs(key) ==
    /\ \/ pc = "running" /\ AwaitsOracle
       \/ pc \in {"returned", "raised"}
    /\ suspended' = [k \in DOMAIN suspended \cup {key} |->
                        IF k = key THEN Running ELSE suspended[k]]
    \* no call holds the loop
    /\ pc' = "idle"
    /\ query' = NoQuery
    /\ session_id' = NoSession
    /\ session_state' = EmptyMapping
    /\ final_response' = None
    /\ agent_used' = "TutorAgent"
    /\ tool_used' = None
    /\ tool_results' = NoResults
    /\ raised' = None
    /\ stack' = <<>>
    /\ event' = NoEvent
    /\ out' = NoEvent
    /\ sessions0' = sessions
    /\ observed' = <<>>
    /\ emitted' = <<>>
    /\ executed' = <<>>
    /\ performed' = <<>>
    /\ received' = <<>>
    /\ UNCHANGED <<registry, sessions, calls, session_updates, inputs, generating>>

\* the oracle's reply has arrived and the loop resumes the call
Unpark(sid) ==
    /\ pc = "idle"
    /\ sid \in DOMAIN suspended
    /\ suspended[sid].pc = "running"
    /\ LET t == suspended[sid]
       IN /\ pc' = t.pc
          /\ query' = t.query
          /\ session_id' = t.session_id
          /\ session_state' = t.session_state
          /\ final_response' = t.final_response
          /\ agent_used' = t.agent_used
          /\ tool_used' = t.tool_used
          /\ tool_results' = t.tool_results
          /\ raised' = t.raised
          /\ stack' = t.stack
          /\ event' = t.event
          /\ out' = t.out
          /\ sessions0' = t.sessions0
          /\ observed' = t.observed
          /\ emitted' = t.emitted
          /\ executed' = t.executed
          /\ performed' = t.performed
          /\ received' = t.received
    /\ suspended' = [s \in DOMAIN suspended \ {sid} |-> suspended[s]]
    /\ UNCHANGED <<registry, sessions, calls, session_updates, inputs, generating>>

ConcurrentNext ==
    \/ \E q \in { x \in Queries : x.text \in {"hello there", "explain algebra",
                                              "calculate 2+2"} },
          sid \in SessionIds : StartConcurrent(q, sid)
    \/ ParkAs(session_id)
    \/ \E sid \in SessionIds : Unpark(sid)
    \/ AgentNotFound
    \/ AgentFound
    \/ \E reply \in ConcurrentReplies : ResumeTutor(reply)
    \/ \E g \in GenOutcomes : ResumeSpecialist(g)
    \/ HandleNone
    \/ HandleDelegation
    \/ ToolNotFound
    \/ \E o \in [ok : BOOLEAN, result : {None, "{result: 4}"},
                 error : {None, "Invalid expression"}] : ToolExecute(o)
    \/ PassThrough
    \/ ObserveFinalResponse
    \/ ObserveError
    \/ ObserveOther
    \/ RunAgentEnds

ConcurrentSpec == Init /\ [][ConcurrentNext]_vars

(***************************************************************************)
(* Several process_query calls on one event loop, all on the same session  *)
(* id.  The calls carry different queries; suspended holds the calls that  *)
(* do not hold the loop by the text of their query.                        *)
(***************************************************************************)
StartShared(q, sid) ==
    /\ pc = "idle"
    /\ q.text \notin DOMAIN suspended
    /\ \A k \in DOMAIN suspended : suspended[k].session_id = sid
    /\ StartQuery(q, sid)

SharedNext ==
    LET SharedQueries == { x \in Queries : x.text \in {"hello there", "explain algebra",
                                                       "calculate 2+2"} }
    IN \/ \E q \in SharedQueries, sid \in SessionIds : StartShared(q, sid)
       \/ ParkAs(query.text)
       \/ \E q \in SharedQueries : Unpark(q.text)
       \/ AgentNotFound
       \/ AgentFound
       \/ \E reply \in ConcurrentReplies : ResumeTutor(reply)
       \/ \E g \in GenOutcomes : ResumeSpecialist(g)
       \/ HandleNone
       \/ HandleDelegation
       \/ ToolNotFound
       \/ \E o \in [ok : BOOLEAN, result : {None, "{result: 4}"},
                    error : {None, "Invalid expression"}] : ToolExecute(o)
       \/ PassThrough
       \/ ObserveFinalResponse
       \/ ObserveError
       \/ ObserveOther
       \/ RunAgentEnds

SharedSessionSpec == Init /\ [][SharedNext]_vars

(***************************************************************************)
(* A process_query call that can be cancelled.  Task.cancel() raises       *)
(* CancelledError inside the coroutine at the await where it is suspended, *)
(* which is the network call of an oracle; CancelledError is not an        *)
(* Exception, so no "except Exception" on the way (the agents' run,        *)
(* run_agent lines 231-238, process_query lines 309-311) catches it and    *)
(* the call ends with it.                                                  *)
(***************************************************************************)
Cancel ==
    /\ pc = "running" /\ AwaitsOracle
    /\ pc' = "raised"
    /\ raised' = "CancelledError"
    /\ stack' = <<>>
    /\ event' = NoEvent
    /\ out' = NoEvent
    /\ UNCHANGED <<registry, aside, sessions, query, session_id, pq_locals, calls,
                   history>>

CancelSpec == Init /\ [][Next \/ Cancel]_vars

(***************************************************************************)
(* PhysicsAgent.run iterated on its own: the caller asks the generator for *)
(* its next event and may send a value into it (asend) or none (__anext__, *)
(* which sends None).  emitted holds what the generator yielded, received  *)
(* the values that reached "tool_result = yield".                          *)
(***************************************************************************)
PhysicsStart(q) ==
    /\ pc = "idle" /\ query = NoQuery /\ stack = <<>>
    /\ query' = q
    /\ stack' = <<[Invoke("PhysicsAgent",
                          InvocationContext(q, request_id, NoSession, trace_id,
                                            EmptyMapping, EmptyMapping, NoCtx))
                      EXCEPT !.rpc = "loop"]>>
    /\ UNCHANGED <<registry, aside, sessions, pc, session_id, pq_locals, raised,
                   event, out, calls, history>>

PhysicsSend(sent, g) ==
    /\ pc = "idle" /\ stack # <<>>
    /\ Top.agent_name = "PhysicsAgent" /\ Top.rpc = "loop"
    /\ LET r == PhysicsRun(Top, Top.query, sent, g)
       IN /\ received' = IF Top.awaiting THEN Append(received, sent) ELSE received
          /\ performed' = performed \o SubSeq(r.frame.did, Len(Top.did) + 1,
                                               Len(r.frame.did))
          /\ IF r.stop
             THEN /\ stack' = SetTop([r.frame EXCEPT !.rpc = "return"])
                  /\ emitted' = emitted
             ELSE /\ stack' = SetTop(r.frame)
                  /\ emitted' = Append(emitted,
                                       <<"PhysicsAgent", AgentEvent(r.event, Top)>>)
    /\ UNCHANGED <<registry, aside, sessions, pc, query, session_id, pq_locals, raised,
                   event, out, calls, sessions0, observed, executed>>

PhysicsNext ==
    LET PhysicsQueries ==
            { Q("physics", FALSE, 0, 1, FALSE, c, f, k) : c, f, k \in BOOLEAN }
        Sendable ==
            { NoneEvent,
              ToolResultEvent("LookupTool", "{key: c}", None),
              ToolResultEvent("LookupTool", "{key: F}", None),
              ToolResultEvent("CalculatorTool", "{result: 4}", None),
              ToolResultEvent("LookupTool", "{}", "not found"),
              ErrorEvent("TOOL_NOT_FOUND", "Tool not found: LookupTool") }
    IN \/ \E q \in PhysicsQueries : PhysicsStart(q)
       \/ \E sent \in Sendable, g \in GenOutcomes : PhysicsSend(sent, g)

PhysicsSpec == Init /\ [][PhysicsNext]_vars

(***************************************************************************)
(* Properties                                                              *)
(***************************************************************************)
Last(seq) == seq[Len(seq)]
Finished == pc \in {"returned", "raised"}

\* an event without its identifiers
Bare(e) == Stamp(e, None, None)

\* everything run_agent has yielded to process_query in the current call
Yielded == IF out = NoEvent THEN observed ELSE Append(observed, out)
IsToolResult(e) == e.event_type = "tool_result"
ToolResultsYielded == SelectSeq(Yielded, IsToolResult)

IsInvocation(i) == emitted[i][2].event_type = "tool_invocation"
InvocationsUpTo(i) == Cardinality({j \in 1..i : IsInvocation(j)})

DelegatedTo(a) ==
    \E i \in 1..Len(emitted) :
        /\ emitted[i][1] = "TutorAgent"
        /\ emitted[i][2].event_type = "delegation"
        /\ emitted[i][2].agent = a

\* the oracle did not stand in the agent's way: the agent reported no
\* failure of its own and produced no empty answer
NoOracleTrouble(a, code) ==
    \A i \in 1..Len(emitted) :
        emitted[i][1] = a =>
            /\ ~(emitted[i][2].event_type = "error" /\ emitted[i][2].error = code)
            /\ ~(emitted[i][2].event_type = "final_response" /\ emitted[i][2].payload = "")

\* C1: every ToolInvocation an agent emits for a registered tool is
\* executed once by the Runner, and the agent is resumed with that
\* invocation's ToolResult as the value it receives: it never receives
\* None and emits nothing before the result is delivered.
C1_ToolResultDelivered ==
    \A i \in 1..Len(emitted) :
        (IsInvocation(i) /\ emitted[i][2].tool \in tools /\ i < Len(emitted)) =>
            LET k == InvocationsUpTo(i)
            IN /\ Len(executed) >= k
               /\ executed[k][1] = emitted[i][2].tool
               /\ Len(received) >= k
               /\ received[k].event_type = "tool_result"
               /\ received[k].tool = emitted[i][2].tool
               /\ emitted[i + 1][2] # NoneEvent

\* C2: a call that the Tutor delegated to MathAgent and whose
\* CalculatorTool execution succeeded returns, with agent_used MathAgent,
\* tool_used CalculatorTool and tool_results the tool's mapping.
C2_MathCalculationReturns ==
    ( /\ Finished
      /\ DelegatedTo("MathAgent")
      /\ Len(executed) = 1
      /\ executed[1][1] = "CalculatorTool"
      /\ executed[1][2].ok
      /\ NoOracleTrouble("MathAgent", "MATH_AGENT_ERROR") )
    => /\ pc = "returned"
       /\ agent_used = "MathAgent"
       /\ tool_used = "CalculatorTool"
       /\ tool_results = SingleResult(executed[1][2].result)

\* C3: a tool whose execute raises makes the Runner yield exactly one
\* ToolResult for that tool, with the exception text as error and an empty
\* result; the Runner raises nothing and has yielded no Error event when it
\* yields that result.
C3_ToolFailureBecomesResult ==
    /\ Len(ToolResultsYielded) = Len(executed)
    /\ \A k \in 1..Len(executed) :
          ~executed[k][2].ok =>
              Bare(ToolResultsYielded[k]) =
                  ToolResultEvent(executed[k][1], "{}", executed[k][2].error)
    /\ (out.event_type = "tool_result" /\ out.error # None) =>
          /\ pc = "running"
          /\ raised = None
          /\ \A i \in 1..Len(Yielded) : Yielded[i].event_type # "error"

C3_Witness ==
    /\ Len(executed) = 1
    /\ ~executed[1][2].ok
    /\ Bare(out) = ToolResultEvent("CalculatorTool", "{}", "Invalid expression")

\* C4: when MathAgent's tool fails and the oracle succeeds, the call still
\* returns MathAgent's answer, with tool_used and tool_results absent.
C4_MathToolFailureStillAnswers ==
    ( /\ Finished
      /\ DelegatedTo("MathAgent")
      /\ Len(executed) = 1
      /\ executed[1][1] = "CalculatorTool"
      /\ ~executed[1][2].ok
      /\ NoOracleTrouble("MathAgent", "MATH_AGENT_ERROR") )
    => /\ pc = "returned"
       /\ agent_used = "MathAgent"
       /\ tool_used = None
       /\ tool_results = NoResults

\* C5: for an empty or whitespace-only query the TutorAgent emits exactly
\* one event, Error EMPTY_QUERY, with no lexical scoring, no oracle call and
\* no Delegation; process_query raises and no specialist or tool is run.
C5_EmptyQuery ==
    (pc # "idle" /\ query.blank /\ "TutorAgent" \in agents) =>
        /\ Len(emitted) <= 1
        /\ \A i \in 1..Len(emitted) :
              /\ emitted[i][1] = "TutorAgent"
              /\ Bare(emitted[i][2]) = ErrorEvent("EMPTY_QUERY", "Query cannot be empty")
        /\ performed = <<>>
        /\ executed = <<>>
        /\ Len(stack) <= 1
        /\ pc # "returned"
        /\ pc = "raised" =>
              (raised = "EMPTY_QUERY: Query cannot be empty" /\ Len(emitted) = 1)

C5_Witness ==
    /\ pc = "raised"
    /\ query.text = "   "
    /\ raised = "EMPTY_QUERY: Query cannot be empty"
    /\ Len(emitted) = 1
    /\ emitted[1][1] = "TutorAgent"
    /\ emitted[1][2].error = "EMPTY_QUERY"

C7_ToolNotFound ==
    /\ \A k \in 1..Len(executed) : executed[k][1] \in tools
    /\ Len(ToolResultsYielded) <= Len(executed)
    /\ ( /\ emitted # <<>>
         /\ IsInvocation(Len(emitted))
         /\ Last(emitted)[2].tool \notin tools
         /\ event = NoEvent )
       => /\ Bare(Last(Yielded)) =
                 ErrorEvent("TOOL_NOT_FOUND", "Tool not found: " \o Last(emitted)[2].tool)
          /\ executed = <<>>
          /\ ToolResultsYielded = <<>>
          /\ out # NoEvent => (pc = "running" /\ raised = None)

C7_Witness ==
    /\ out.error = "TOOL_NOT_FOUND"
    /\ Last(emitted)[1] = "MathAgent"
    /\ Bare(Last(emitted)[2]) = ToolInvocationEvent("CalculatorTool", "expression")
    /\ "CalculatorTool" \notin tools

\* C8: whenever process_query raises, the session store is exactly as it was
\* before the call.
C8_RaiseLeavesStore ==
    pc = "raised" => sessions = sessions0

\* C9: when process_query returns for a call made with a session id, the
\* session's entry maps last_query to the query, last_response to the
\* returned answer and last_agent_used to the returned agent_used, and
\* every other key stored before is preserved.
SessionKeys == {"last_query", "last_response", "last_agent_used"}

C9_SessionUpdated ==
    (pc = "returned" /\ HasSession(session_id)) =>
        /\ session_id \in DOMAIN sessions
        /\ SessionKeys \subseteq DOMAIN sessions[session_id]
        /\ sessions[session_id]["last_query"] = query.text
        /\ sessions[session_id]["last_response"] = final_response
        /\ sessions[session_id]["last_agent_used"] = agent_used
        /\ LET before == get_session_state(sessions0, session_id)
           IN \A k \in DOMAIN before \ SessionKeys :
                 /\ k \in DOMAIN sessions[session_id]
                 /\ sessions[session_id][k] = before[k]

C9_Witness ==
    /\ pc = "returned"
    /\ session_id = "s1"
    /\ "s1" \in DOMAIN sessions0
    /\ sessions0["s1"]["last_query"] = "old"
    /\ sessions["s1"]["topic"] = "algebra"
    /\ sessions["s1"]["last_query"] = "explain algebra"

\* C10: process_query returns only after it has seen a FinalResponse; when
\* the event stream ends with neither a FinalResponse nor an Error (the
\* Tutor ended with Clarification or GeneralResponse) it raises.
C10_ReturnsOnlyAfterFinalResponse ==
    /\ pc = "returned" =>
          /\ observed # <<>>
          /\ Last(observed).event_type = "final_response"
          /\ final_response = Last(observed).payload
    /\ ( /\ Finished
         /\ \A i \in 1..Len(observed) :
               observed[i].event_type \notin {"final_response", "error"} )
       => /\ pc = "raised"
          /\ raised = "No final response was generated"

C10_Witness ==
    /\ pc = "raised"
    /\ raised = "No final response was generated"
    /\ observed # <<>>
    /\ Last(observed).event_type \in {"clarification", "general_response"}

\* the position in a sequence of events of the first FinalResponse or Error,
\* 0 when there is none
IsDecisive(e) == e.event_type \in {"final_response", "error"}
FirstDecisive(seq) ==
    IF \E i \in 1..Len(seq) : IsDecisive(seq[i])
    THEN CHOOSE i \in 1..Len(seq) :
             IsDecisive(seq[i]) /\ \A j \in 1..(i - 1) : ~IsDecisive(seq[j])
    ELSE 0

\* C11: when the first FinalResponse-or-Error event process_query consumes
\* is a FinalResponse, the call returns, with answer, agent_used, tool_used
\* and tool_results taken from that event, and consumes nothing after it.
C11_FirstFinalResponseReturned ==
    LET k == FirstDecisive(observed)
    IN (Finished /\ k # 0 /\ observed[k].event_type = "final_response") =>
           /\ pc = "returned"
           /\ raised = None
           /\ final_response = observed[k].payload
           /\ agent_used = observed[k].agent
           /\ tool_used = observed[k].tool
           /\ tool_results = observed[k].results
           /\ k = Len(observed)

\* C12: when process_query sees an Error event before any FinalResponse,
\* whoever created it, it consumes nothing further and raises an exception
\* whose text is the event's error code, ": " and the event's error message;
\* the call returns no answer.
C12_ErrorRaises ==
    LET k == FirstDecisive(observed)
    IN (k # 0 /\ observed[k].event_type = "error") =>
           /\ k = Len(observed)
           /\ pc = "raised"
           /\ raised = observed[k].error \o ": " \o observed[k].payload
           /\ final_response = None
           /\ stack = <<>>
           /\ out = NoEvent

C12_Witness ==
    /\ pc = "raised"
    /\ DelegatedTo("MathAgent")
    /\ Last(observed).error = "MATH_AGENT_ERROR"
    /\ raised = "MATH_AGENT_ERROR: Error in Math Agent: Failed to generate text"

\* the TutorAgent's run of the current call has come to its routing
\* decision: _analyze_query_intent has returned
Routed ==
    /\ stack # <<>>
    /\ stack[1].agent_name = "TutorAgent"
    /\ stack[1].apc = "done"
    /\ stack[1].best_agent # None
TutorEvents == SelectSeq(emitted, LAMBDA x : x[1] = "TutorAgent")

\* C13 as stated: for every confidence c the routing analysis returns, the
\* TutorAgent emits exactly one event: a Delegation when c >= 0.9, a
\* Delegation with an ambiguity note when 0.7 <= c < 0.9, a Clarification
\* when 0.5 <= c < 0.7 and a GeneralResponse when c < 0.5.
C13_FourBands ==
    Routed =>
        LET c == stack[1].confidence
            e == Bare(TutorEvents[1][2])
            scores == stack[1].scores
        IN /\ Len(TutorEvents) = 1
           /\ c >= 9000 =>
                 e = DelegationEvent(stack[1].best_agent, c,
                                     [scores |-> scores, ambiguity_note |-> FALSE])
           /\ (7000 <= c /\ c < 9000) =>
                 e = DelegationEvent(stack[1].best_agent, c,
                                     [scores |-> scores, ambiguity_note |-> TRUE])
           /\ (5000 <= c /\ c < 7000) => e.event_type = "clarification"
           /\ c < 5000 => e.event_type = "general_response"

\* C13, amended: the four bands as above for every confidence c up to 1.0;
\* for c > 1.0 the Delegation cannot be constructed and the TutorAgent
\* emits the single event Error TUTOR_AGENT_ERROR.
C13_FourBandsUpToOne ==
    Routed =>
        LET c == stack[1].confidence
            e == Bare(TutorEvents[1][2])
            scores == stack[1].scores
        IN /\ Len(TutorEvents) = 1
           /\ (9000 <= c /\ c <= 10000) =>
                 e = DelegationEvent(stack[1].best_agent, c,
                                     [scores |-> scores, ambiguity_note |-> FALSE])
           /\ (7000 <= c /\ c < 9000) =>
                 e = DelegationEvent(stack[1].best_agent, c,
                                     [scores |-> scores, ambiguity_note |-> TRUE])
           /\ (5000 <= c /\ c < 7000) => e.event_type = "clarification"
           /\ c < 5000 => e.event_type = "general_response"
           /\ c > 10000 => (e.event_type = "error" /\ e.error = "TUTOR_AGENT_ERROR")

C13_Witness ==
    /\ Routed
    /\ stack[1].confidence = 9000
    /\ Len(TutorEvents) = 1
    /\ TutorEvents[1][2].event_type = "delegation"
    /\ ~TutorEvents[1][2].context.ambiguity_note

OracleConsulted == \E i \in 1..Len(performed) : performed[i] = "oracle.classify"

\* C14: a query in which one agent's keyword count is positive and more
\* than twice the other's is routed to that agent without a call of the
\* classification oracle; the oracle is called exactly when neither count
\* qualifies; both counts never qualify together.
C14_LexicalRouting ==
    LET m == query.math_count
        p == query.physics_count
        math == m > 0 /\ m > 2 * p
        physics == p > 0 /\ p > 2 * m
        analyzed == /\ stack # <<>>
                    /\ stack[1].agent_name = "TutorAgent"
                    /\ stack[1].apc = "done"
                    /\ ~query.blank
    IN /\ ~(math /\ physics)
       /\ (analyzed /\ math) =>
             /\ stack[1].best_agent = "MathAgent"
             /\ stack[1].analysis = NoReply
             /\ ~OracleConsulted
       /\ (analyzed /\ physics) =>
             /\ stack[1].best_agent = "PhysicsAgent"
             /\ stack[1].analysis = NoReply
             /\ ~OracleConsulted
       /\ analyzed => (OracleConsulted <=> (~math /\ ~physics))

C14_Witness ==
    /\ query.math_count = 3
    /\ query.physics_count = 1
    /\ stack # <<>>
    /\ stack[1].apc = "done"
    /\ stack[1].best_agent = "MathAgent"
    /\ performed = <<"lexical_scoring">>

\* the classification oracle answered the TutorAgent with a best agent that
\* is missing or is not one of the candidates
OutsiderNamed ==
    /\ stack # <<>>
    /\ stack[1].agent_name = "TutorAgent"
    /\ stack[1].apc = "done"
    /\ stack[1].analysis.ok
    /\ stack[1].analysis.best_agent \notin {"MathAgent", "PhysicsAgent"}

\* C15: when the oracle's classification names a best agent that is missing
\* or not among the candidates, the TutorAgent emits an Error and nothing
\* else; no Delegation ever names an agent outside the candidate list.
C15_InvalidBestAgentFails ==
    /\ \A i \in 1..Len(emitted) :
          emitted[i][2].event_type = "delegation" =>
              emitted[i][2].agent \in {"MathAgent", "PhysicsAgent"}
    /\ OutsiderNamed =>
          /\ Len(TutorEvents) = 1
          /\ TutorEvents[1][2].event_type = "error"
          /\ TutorEvents[1][2].error = "TUTOR_AGENT_ERROR"
          /\ stack[1].best_agent = None

C15_Witness ==
    /\ OutsiderNamed
    /\ stack[1].analysis.best_agent = "ChemistryAgent"
    /\ event.error = "TUTOR_AGENT_ERROR"

\* the exceptions raised inside an agent's run, and the Error events with
\* the agent's own code that the agent emitted
ExceptionsIn(a) ==
    {i \in 1..Len(performed) : performed[i] = "exception in " \o a \o ".run"}
OwnCode(a) ==
    CASE a = "TutorAgent" -> "TUTOR_AGENT_ERROR"
      [] a = "MathAgent" -> "MATH_AGENT_ERROR"
      [] a = "PhysicsAgent" -> "PHYSICS_AGENT_ERROR"
OwnErrors(a) ==
    {i \in 1..Len(emitted) :
        /\ emitted[i][1] = a
        /\ emitted[i][2].event_type = "error"
        /\ emitted[i][2].error = OwnCode(a)}

\* C16: an exception raised inside an agent's run (oracle failure, routing
\* failure, event construction failure) becomes exactly one Error event
\* with the code of that agent; the agent emits nothing after it, and the
\* exception does not reach the Runner: the Runner reports
\* AGENT_EXECUTION_ERROR only for its own failure on a None event.
C16_ExceptionBecomesError ==
    /\ \A a \in {"TutorAgent", "MathAgent", "PhysicsAgent"} :
          /\ Cardinality(OwnErrors(a)) = Cardinality(ExceptionsIn(a))
          /\ Cardinality(OwnErrors(a)) <= 1
          /\ \A i \in OwnErrors(a) :
                \A j \in (i + 1)..Len(emitted) : emitted[j][1] # a
    /\ \A i \in 1..Len(Yielded) :
          (Yielded[i].event_type = "error" /\ Yielded[i].error = "AGENT_EXECUTION_ERROR") =>
              /\ emitted # <<>>
              /\ Last(emitted)[2] = NoneEvent

C16_Witness ==
    /\ pc = "raised"
    /\ performed = <<"lexical_scoring", "oracle.classify", "exception in TutorAgent.run">>
    /\ Len(emitted) = 1
    /\ emitted[1][2].error = "TUTOR_AGENT_ERROR"
    /\ emitted[1][2].payload = "Error in Tutor Agent: 1 validation error for DelegationEvent"

EventVariants ==
    {"delegation", "clarification", "general_response", "tool_invocation",
     "tool_result", "final_response", "error"}
TerminalTypes == {"final_response", "general_response", "clarification", "error"}
TerminalsOf(a) ==
    {i \in 1..Len(emitted) :
        emitted[i][1] = a /\ emitted[i][2].event_type \in TerminalTypes}
AgentsRun == {emitted[i][1] : i \in 1..Len(emitted)}

\* C17: everything an agent emits is one of the seven Event variants; an
\* agent emits at most one terminal event (FinalResponse, GeneralResponse,
\* Clarification, Error) and nothing after it; and once the call is over,
\* every agent that ran in it has emitted its terminal event.
C17_OneTerminalEvent ==
    /\ \A i \in 1..Len(emitted) : emitted[i][2].event_type \in EventVariants
    /\ \A a \in AgentsRun :
          /\ Cardinality(TerminalsOf(a)) <= 1
          /\ \A i \in TerminalsOf(a) :
                \A j \in (i + 1)..Len(emitted) : emitted[j][1] # a
    /\ Finished => \A a \in AgentsRun : Cardinality(TerminalsOf(a)) = 1

\* C18: during a call, every event run_agent yields (an agent's event
\* passed on, or a ToolResult or Error the Runner creates) carries the
\* request_id and trace_id of the InvocationContext created for the call,
\* and so does the context of every agent run of the call.
C18_EventsCarryCallIds ==
    /\ \A k \in 1..Len(stack) :
          /\ stack[k].request_id = request_id
          /\ stack[k].trace_id = trace_id
    /\ \A i \in 1..Len(Yielded) :
          /\ Yielded[i].request_id = request_id
          /\ Yielded[i].trace_id = trace_id

C18_Witness ==
    /\ Len(stack) = 2
    /\ stack[2].request_id = "req-1"
    /\ Len(observed) = 1
    /\ observed[1].event_type = "tool_result"
    /\ observed[1].request_id = "req-1"
    /\ out.error = "AGENT_EXECUTION_ERROR"
    /\ out.trace_id = "trace-1"

Delegations == {i \in 1..Len(emitted) : emitted[i][2].event_type = "delegation"}

\* C19: with the registry {TutorAgent, MathAgent, PhysicsAgent}, a call
\* resolves at most one Delegation: only the TutorAgent emits one, its
\* target is MathAgent or PhysicsAgent, and run_agent is never nested
\* deeper than two.
C19_OneDelegation ==
    agents = {"TutorAgent", "MathAgent", "PhysicsAgent"} =>
        /\ Len(stack) <= 2
        /\ Cardinality(Delegations) <= 1
        /\ \A i \in Delegations :
              /\ emitted[i][1] = "TutorAgent"
              /\ emitted[i][2].agent \in {"MathAgent", "PhysicsAgent"}
        /\ Len(stack) = 2 =>
              /\ stack[1].agent_name = "TutorAgent"
              /\ stack[2].agent_name \in {"MathAgent", "PhysicsAgent"}
              /\ Cardinality(Delegations) = 1

C19_Witness ==
    /\ agents = {"TutorAgent", "MathAgent", "PhysicsAgent"}
    /\ Len(stack) = 2
    /\ stack[2].agent_name = "PhysicsAgent"
    /\ stack[2].apc = "done"
    /\ out.event_type = "final_response"

\* the last call of the SessionService was get_session_state
JustGot ==
    /\ performed # <<>>
    /\ Last(performed) = "get_session_state(" \o session_id \o ")"
WasCleared(sid) ==
    \E i \in 1..Len(performed) : performed[i] = "clear_session(" \o sid \o ")"

\* C20: get_session_state on an id that has no entry, because it was never
\* written or because it was cleared, returns the empty mapping and
\* creates no entry; a get never changes the store and has a result for
\* every id.
C20_GetUnknownSession ==
    /\ \A sid \in SessionIds \ DOMAIN sessions :
          get_session_state(sessions, sid) = [k \in {} |-> None]
    /\ JustGot =>
          /\ sessions = sessions0
          /\ session_id \notin DOMAIN sessions0 =>
                /\ session_state = [k \in {} |-> None]
                /\ session_id \notin DOMAIN sessions
          /\ session_id \in DOMAIN sessions0 =>
                session_state = sessions0[session_id]

C20_Witness ==
    /\ JustGot
    /\ session_id = "s1"
    /\ performed[1] = "update_session_state(s1)"
    /\ WasCleared("s1")
    /\ session_state = [k \in {} |-> None]
    /\ "s1" \notin DOMAIN sessions

\* the last call of the SessionService was update_session_state, or
\* clear_session
JustUpdated ==
    /\ performed # <<>>
    /\ Last(performed) = "update_session_state(" \o session_id \o ")"
JustCleared ==
    /\ performed # <<>>
    /\ Last(performed) = "clear_session(" \o session_id \o ")"

\* the entry of a session id in a store, empty if the id has none
EntryOf(store, sid) == IF sid \in DOMAIN store THEN store[sid] ELSE [k \in {} |-> None]

\* C21: after update_session_state(id, updates) the entry of id is the
\* previous entry (empty if there was none) with every key of updates
\* overwritten by its new value and every other key unchanged, and the
\* entries of all other session ids are unchanged.
C21_UpdateMerges ==
    JustUpdated =>
        LET before == EntryOf(sessions0, session_id)
        IN /\ session_id \in DOMAIN sessions
           /\ DOMAIN sessions[session_id] = DOMAIN before \cup DOMAIN session_updates
           /\ \A k \in DOMAIN session_updates :
                 sessions[session_id][k] = session_updates[k]
           /\ \A k \in DOMAIN before \ DOMAIN session_updates :
                 sessions[session_id][k] = before[k]
           /\ DOMAIN sessions = DOMAIN sessions0 \cup {session_id}
           /\ \A i \in DOMAIN sessions0 \ {session_id} : sessions[i] = sessions0[i]

C21_Witness ==
    /\ JustUpdated
    /\ session_id = "s1"
    /\ sessions0 = [i \in {"s1", "s2"} |-> [topic |-> "algebra", last_query |-> "old"]]
    /\ session_updates = [topic |-> "optics"]
    /\ sessions["s1"] = [topic |-> "optics", last_query |-> "old"]
    /\ sessions["s2"] = [topic |-> "algebra", last_query |-> "old"]

\* C22: update_session_state(id, {}) leaves the mapping that
\* get_session_state(id) returns unchanged, whether id had an entry or
\* not, after any earlier calls of the three methods.
C22_EmptyUpdateChangesNothing ==
    (JustUpdated /\ session_updates = [k \in {} |-> None]) =>
        /\ get_session_state(sessions, session_id) = EntryOf(sessions0, session_id)
        /\ \A i \in DOMAIN sessions0 : sessions[i] = sessions0[i]

C22_Witness ==
    /\ JustUpdated
    /\ session_updates = [k \in {} |-> None]
    /\ Len(performed) = 3
    /\ performed[2] = "clear_session(s2)"
    /\ session_id = "s1"
    /\ sessions0 = [i \in {"s1"} |-> [topic |-> "optics"]]
    /\ get_session_state(sessions, "s1") = [topic |-> "optics"]

\* C23: clear_session(id) never fails; afterwards id has no entry and
\* get_session_state(id) returns the empty mapping; no other session's
\* entry changes; on an absent id it changes nothing, so clearing twice
\* leaves the store as clearing once does.
C23_ClearIdempotent ==
    /\ \A sid \in SessionIds :
          clear_session(clear_session(sessions, sid), sid) = clear_session(sessions, sid)
    /\ JustCleared =>
          /\ raised = None
          /\ session_id \notin DOMAIN sessions
          /\ get_session_state(sessions, session_id) = [k \in {} |-> None]
          /\ DOMAIN sessions = DOMAIN sessions0 \ {session_id}
          /\ \A i \in DOMAIN sessions : sessions[i] = sessions0[i]
          /\ session_id \notin DOMAIN sessions0 => sessions = sessions0
          /\ ( /\ Len(performed) >= 2
               /\ performed[Len(performed) - 1] = Last(performed) )
             => sessions = sessions0

C23_Witness ==
    /\ JustCleared
    /\ session_id = "s1"
    /\ performed = << "update_session_state(s1)", "clear_session(s1)",
                      "clear_session(s1)" >>
    /\ sessions = sessions0
    /\ "s1" \notin DOMAIN sessions

\* the one call of a tool's execute, its outcome and its arguments
ToolCalled(tool_name) == executed # <<>> /\ executed[1][1] = tool_name
ToolOutcome == executed[1][2]
LookupKey == IF "key" \in DOMAIN inputs THEN inputs.key ELSE <<>>
LookupType == IF "type" \in DOMAIN inputs THEN inputs.type ELSE "constant"
Selected == IF LookupType = "constant" THEN PHYSICS_CONSTANTS ELSE PHYSICS_FORMULAS
SelectedKeys == {Selected[i] : i \in 1..Len(Selected)}
Annotations == {"match_confidence", "original_query"}
IsExactKey == LookupKey \in SelectedKeys

\* C28: a lookup with a key that is exactly a key of the selected
\* collection returns that key's entry, with key equal to the input key and
\* without match_confidence and original_query; a result carries these two
\* fields if and only if the match was not exact.
C28_ExactMatchNotAnnotated ==
    (ToolCalled("LookupTool") /\ LookupType \in {"constant", "formula"}) =>
        /\ IsExactKey =>
              /\ ToolOutcome.ok
              /\ ToolOutcome.result.key = LookupKey
              /\ ToolOutcome.result.entry = <<LookupType, LookupKey>>
              /\ DOMAIN ToolOutcome.result \cap Annotations = {}
        /\ ToolOutcome.ok =>
              /\ ~IsExactKey <=> Annotations \subseteq DOMAIN ToolOutcome.result
              /\ IsExactKey <=> DOMAIN ToolOutcome.result \cap Annotations = {}
              /\ ~IsExactKey => ToolOutcome.result.original_query = LookupKey

C28_Witness ==
    /\ ToolCalled("LookupTool")
    /\ inputs = [key |-> <<"m", "e">>, type |-> "constant"]
    /\ ToolOutcome.ok
    /\ ToolOutcome.result =
           [key |-> <<"m", "e">>, type |-> "constant",
            entry |-> <<"constant", <<"m", "e">> >>]

\* the keys of the selected collection that contain the query key or are
\* contained in it, case ignored, and those among them whose length ratio
\* (shorter / longer) is above one half
Related ==
    {k \in SelectedKeys : In(lower(LookupKey), lower(k)) \/ In(lower(k), lower(LookupKey))}
Shorter(k) == IF Len(k) < Len(LookupKey) THEN Len(k) ELSE Len(LookupKey)
Longer(k) == IF Len(k) < Len(LookupKey) THEN Len(LookupKey) ELSE Len(k)
AboveHalf == {k \in Related : 2 * Shorter(k) > Longer(k)}
IsSameKeyIgnoringCase == \E k \in SelectedKeys : lower(k) = lower(LookupKey)

\* C29: a lookup with a non-empty key that matches no key of the selected
\* collection exactly or case-insensitively succeeds only if some key is in
\* a substring relation with the query key with a length ratio strictly
\* above 0.5, and then returns such a key; when no key is related or the
\* best ratio is 0.5 or less, execute fails with the not-found error and
\* returns no result.
C29_FuzzyThreshold ==
    ( /\ ToolCalled("LookupTool")
      /\ LookupType \in {"constant", "formula"}
      /\ LookupKey # <<>>
      /\ ~IsExactKey
      /\ ~IsSameKeyIgnoringCase )
    => /\ ToolOutcome.ok <=> AboveHalf # {}
       /\ ToolOutcome.ok =>
             /\ ToolOutcome.result.key \in AboveHalf
             /\ \A k \in Related :
                   Shorter(k) * Longer(ToolOutcome.result.key)
                       <= Shorter(ToolOutcome.result.key) * Longer(k)
       /\ ~ToolOutcome.ok =>
             ToolOutcome.error =
                 "No match found for " \o LookupType \o ": " \o Text(LookupKey)

C29_Witness ==
    /\ ToolCalled("LookupTool")
    /\ inputs = [key |-> <<"m">>, type |-> "constant"]
    /\ Related = { <<"m", "e">>, <<"m", "p">> }
    /\ ~ToolOutcome.ok
    /\ ToolOutcome.error = "No match found for constant: m"

\* well-formed arithmetic: a numeral, a parenthesised expression, or two
\* expressions joined by an operator
Numeral(s) ==
    /\ s # <<>>
    /\ \A i \in 1..Len(s) : s[i] \in DigitChars
    /\ Len(s) > 1 => s[1] # "0"
RECURSIVE WellFormed(_)
WellFormed(s) ==
    \/ Numeral(s)
    \/ /\ Len(s) >= 3
       /\ s[1] = "(" /\ s[Len(s)] = ")"
       /\ WellFormed(SubSeq(s, 2, Len(s) - 1))
    \/ \E i \in 2..(Len(s) - 1) :
          /\ s[i] \in {"+", "-", "*", "/", "^"}
          /\ WellFormed(SubSeq(s, 1, i - 1))
          /\ WellFormed(SubSeq(s, i + 1, Len(s)))
LiteralZeroDivisor(s) ==
    \E i \in 1..(Len(s) - 1) : s[i] = "/" /\ s[i + 1] = "0"

\* C30: for every well-formed arithmetic expression without a literal zero
\* divisor, CalculatorTool.execute passes validation and returns a mapping
\* with a numeric result and a non-empty list of steps; it does not fail.
C30_WellFormedEvaluates ==
    ( /\ ToolCalled("CalculatorTool")
      /\ "expression" \in DOMAIN inputs
      /\ WellFormed(inputs.expression)
      /\ ~LiteralZeroDivisor(inputs.expression) )
    => /\ ToolOutcome.ok
       /\ ToolOutcome.result.result \in Int
       /\ ToolOutcome.result.steps # <<>>

\* the emitted ToolInvocations of an agent, as <<tool, inputs>> pairs
InvocationsOf(a) ==
    LET Mine(p) == p[1] = a /\ p[2].event_type = "tool_invocation"
        picked == SelectSeq(emitted, Mine)
    IN [i \in 1..Len(picked) |-> <<picked[i][2].tool, picked[i][2].payload>>]

\* C27: a call that the Tutor delegated to PhysicsAgent, for a query with
\* a constant need and a calculation need (and no formula need), in which
\* no tool execution failed and the oracle answered, returns: the agent
\* invoked LookupTool with type constant and then CalculatorTool, the
\* Runner executed both in that order, the run ended with one
\* FinalResponse, and tool_results is the composite holding both
\* constant_result and calculation_result.
C27_PhysicsConstantThenCalculation ==
    ( /\ Finished
      /\ DelegatedTo("PhysicsAgent")
      /\ query.p_const /\ query.p_calc /\ ~query.p_formula
      /\ {"LookupTool", "CalculatorTool"} \subseteq tools
      /\ \A k \in 1..Len(executed) : executed[k][2].ok
      /\ NoOracleTrouble("PhysicsAgent", "PHYSICS_AGENT_ERROR") )
    => /\ pc = "returned"
       /\ InvocationsOf("PhysicsAgent") =
              << <<"LookupTool", "constant">>, <<"CalculatorTool", "expression">> >>
       /\ Len(executed) = 2
       /\ executed[1][1] = "LookupTool"
       /\ executed[2][1] = "CalculatorTool"
       /\ Cardinality({i \in 1..Len(emitted) :
                          emitted[i][2].event_type = "final_response"}) = 1
       /\ agent_used = "PhysicsAgent"
       /\ tool_results.kind = "composite"
       /\ tool_results.constant_result = executed[1][2].result
       /\ tool_results.calculation_result = executed[2][2].result

\* C25: while one call of generate_text waits between two attempts, every
\* other call that is waiting for the oracle can still take its next step.
C25_BackoffNeverBlocks ==
    \A c \in Callers, d \in Callers :
        ( /\ c # d
          /\ generating[c].at = "sleeping"
          /\ generating[d].at = "awaiting" )
        => ENABLED (\E g \in AttemptOutcomes : AttemptEnds(d, g))

AllFailed(attempts) == \A i \in 1..Len(attempts) : ~attempts[i].ok
Settled(a) == a.at \in {"returned", "raised"}

\* what one activation of generate_text has done so far
C26_Activation(a) ==
    LET n == Len(a.attempts)
    IN /\ n <= a.retry_count + 1
       /\ \A i \in 1..(n - 1) : ~a.attempts[i].ok
       /\ a.at = "returned" <=> (n > 0 /\ a.attempts[n].ok)
       /\ a.at = "returned" => a.text = a.attempts[n].text
       /\ a.at = "raised" <=> (n = a.retry_count + 1 /\ AllFailed(a.attempts))
       /\ a.at = "raised" =>
              /\ a.error.code = "GEMINI_API_ERROR"
              /\ a.error.retry = TRUE
       /\ a.at # "raised" => a.error.code = None
       /\ Len(a.slept) = (IF Settled(a) THEN n - 1 ELSE n)
       /\ \A k \in 1..Len(a.slept) :
              /\ ~a.attempts[k].ok
              /\ a.slept[k] = a.retry_delay * 2 ^ (k - 1)

\* C26: generate_text calls the oracle at most retry_count + 1 times,
\* returns the text of the first successful attempt and makes no attempt
\* after it, sleeps retry_delay * 2^k after the failed attempt k (counted
\* from 0) when another attempt follows, raises GeminiAPIError with
\* retry = true exactly when all retry_count + 1 attempts failed, and
\* every call returns or raises once its attempts and sleeps end.
C26_BoundedRetries ==
    /\ [](\A c \in Callers :
             generating[c].at # "idle" => C26_Activation(generating[c]))
    /\ \A c \in Callers :
           (generating[c].at = "awaiting") ~> Settled(generating[c])

\* the default retry_count: four failed attempts, three sleeps, the raise
C26_Witness ==
    \E c \in Callers :
        /\ generating[c].at = "raised"
        /\ generating[c].retry_count = 3
        /\ generating[c].retry_delay = 1
        /\ Len(generating[c].attempts) = 4
        /\ generating[c].slept = <<1, 2, 4>>
        /\ generating[c].error =
               GeminiAPIError("Failed to generate text: 503 unavailable")

\* the calls of the loop: the suspended and finished ones and the running one
Tasks ==
    { suspended[sid] : sid \in DOMAIN suspended } \cup
    (IF pc = "idle" THEN {} ELSE {Running})

\* the call went through the session update of process_query
WroteSession(t) ==
    \/ t.pc = "returned"
    \/ t.pc = "raised" /\ t.raised = "No final response was generated"

\* the entry a call leaves in a store that had none for its session id
EntryAlone(t) ==
    IF WroteSession(t)
    THEN [last_query |-> t.query.text, last_response |-> t.final_response,
          last_agent_used |-> t.agent_used]
    ELSE [k \in {} |-> None]

\* C24: with calls on distinct session ids interleaved at the awaits of the
\* oracles, the store holds for every call's session exactly the entry the
\* call leaves when it runs alone (none before its session update, and none
\* if it raises before it), and holds entries for no other session.
C24_DistinctSessionsIndependent ==
    /\ \A t \in Tasks : EntryOf(sessions, t.session_id) = EntryAlone(t)
    /\ \A t \in Tasks : t.session_id \in DOMAIN sessions <=> WroteSession(t)
    /\ DOMAIN sessions \subseteq { t.session_id : t \in Tasks }
    /\ \A t1 \in Tasks, t2 \in Tasks : t1.session_id = t2.session_id => t1 = t2

\* two calls that overlapped: each started before the other one wrote its
\* entry, and both have written
C24_Witness ==
    /\ pc = "idle"
    /\ DOMAIN suspended = SessionIds
    /\ \A sid \in SessionIds :
          /\ WroteSession(suspended[sid])
          /\ DOMAIN suspended[sid].sessions0 = {}
          /\ suspended[sid].pc = "returned"

Expression == IF "expression" \in DOMAIN inputs THEN inputs.expression ELSE <<>>
Occurrences(s, ch) == Cardinality({i \in 1..Len(s) : s[i] = ch})
IsRunOf(s, i, j, class) ==
    /\ i <= j
    /\ \A k \in i..j : s[k] \in class
    /\ i > 1 => s[i - 1] \notin class
    /\ j < Len(s) => s[j + 1] \notin class
\* a word of two letters or more that is no function and no constant
DisallowedIdentifier(s) ==
    \E i \in 1..Len(s), j \in 1..Len(s) :
        /\ i < j
        /\ IsRunOf(s, i, j, LetterChars)
        /\ Text(SubSeq(s, i, j)) \notin {"sqrt", "exp", "log", "sin", "cos", "tan",
                                         "asin", "acos", "atan", "pi"}
Rejectable(s) ==
    \/ \A i \in 1..Len(s) : s[i] = " "
    \/ Occurrences(s, "(") # Occurrences(s, ")")
    \/ LiteralZeroDivisor(s)
    \/ DisallowedIdentifier(s)

\* C31: for an expression that is empty, has unequal counts of "(" and ")",
\* has a literal zero divisor or a disallowed identifier, CalculatorTool's
\* execute raises ToolError with code TOOL_ERROR, a message that begins
\* "Invalid expression" and details naming the expression; and whenever the
\* execute of a tool fails, what it raises is a ToolError.
C31_InvalidExpressionIsToolError ==
    /\ (ToolCalled("CalculatorTool") /\ Rejectable(Expression)) =>
          /\ ~ToolOutcome.ok
          /\ ToolOutcome.exception = "ToolError"
          /\ ToolOutcome.code = "TOOL_ERROR"
          /\ \E reason \in {"Expression cannot be empty", "Unbalanced parentheses",
                            "Division by zero"}
                           \cup {"Disallowed symbol or function: " \o Text(t) :
                                     t \in {Tokens(Expression)[i] :
                                                i \in 1..Len(Tokens(Expression))}} :
                 ToolOutcome.error = "Invalid expression: " \o reason
          /\ ToolOutcome.details = [expression |-> Expression]
    /\ (executed # <<>> /\ pc = "idle" /\ ~ToolOutcome.ok) =>
          ToolOutcome.exception = "ToolError"

\* the TutorAgent's analysis is over and was settled by the keyword counts
LexicallySettled ==
    /\ stack # <<>>
    /\ stack[1].agent_name = "TutorAgent"
    /\ stack[1].apc = "done"
    /\ ~query.blank
    /\ ~OracleConsulted
WinnerCount ==
    IF stack[1].best_agent = "MathAgent" THEN query.math_count ELSE query.physics_count
Loser == IF stack[1].best_agent = "MathAgent" THEN "PhysicsAgent" ELSE "MathAgent"

\* C34: when the keyword counts settle the routing with winning count n,
\* the winner's confidence is min(0.7 + 0.1 * n, 0.95) (up to the rounding
\* of the floating point sum, one ten-thousandth here, and never above
\* it), the loser's score is exactly 1 minus the winner's confidence, the two
\* scores sum to 1, and the winner's confidence never exceeds 0.95.
C34_LexicalConfidence ==
    LexicallySettled =>
        LET n == WinnerCount
            exact == IF 7000 + 1000 * n < 9500 THEN 7000 + 1000 * n ELSE 9500
            winner == stack[1].confidence
        IN /\ stack[1].best_agent \in {"MathAgent", "PhysicsAgent"}
           /\ winner <= exact
           /\ winner >= exact - 1
           /\ winner <= 9500
           /\ stack[1].scores[stack[1].best_agent] = winner
           /\ stack[1].scores[Loser] = One - winner
           /\ stack[1].scores.MathAgent + stack[1].scores.PhysicsAgent = One

\* three keywords of one subject: 0.7 + 0.3 is capped at 0.95
C34_Witness ==
    /\ LexicallySettled
    /\ query.physics_count = 3
    /\ query.math_count = 1
    /\ stack[1].best_agent = "PhysicsAgent"
    /\ stack[1].confidence = 9500
    /\ stack[1].scores = Scores(500, 9500)

\* the events of the TutorAgent that only the low bands of the decision
\* produce
LowBandEvents ==
    { i \in 1..Len(TutorEvents) :
          TutorEvents[i][2].event_type \in {"clarification", "general_response"} }
DelegatesToWinner ==
    /\ Len(TutorEvents) = 1
    /\ TutorEvents[1][2].event_type = "delegation"
    /\ TutorEvents[1][2].agent = stack[1].best_agent
    /\ TutorEvents[1][2].agent =
           (IF Qualifies(query.math_count, query.physics_count)
            THEN "MathAgent" ELSE "PhysicsAgent")

\* C38 as stated: when the keyword counts settle the routing, the TutorAgent
\* emits a Delegation to the winner, the lexical confidence lies in
\* [0.8, 0.95], and a Clarification or GeneralResponse is emitted only
\* after the classification oracle was consulted.
C38_LexicalAlwaysDelegates ==
    /\ LexicallySettled =>
          /\ DelegatesToWinner
          /\ stack[1].confidence >= 8000
          /\ stack[1].confidence <= 9500
    /\ LowBandEvents # {} => OracleConsulted

\* C38, amended: as above, with the lexical confidence in
\* [0.7999999999999999, 0.95]: the floating point sum 0.7 + 0.1 lies just
\* below 0.8, and still above the threshold 0.7 of a Delegation.
C38_LexicalDelegatesAboveThreshold ==
    /\ LexicallySettled =>
          /\ DelegatesToWinner
          /\ stack[1].confidence >= 8000 - 1
          /\ stack[1].confidence >= DEFAULT_CONFIDENCE_THRESHOLD
          /\ stack[1].confidence <= 9500
    /\ LowBandEvents # {} => OracleConsulted

\* one keyword: 0.7999999999999999, a Delegation with the ambiguity note
C38_Witness ==
    /\ LexicallySettled
    /\ query.math_count = 1
    /\ query.physics_count = 0
    /\ stack[1].confidence = 7999
    /\ Len(TutorEvents) = 1
    /\ TutorEvents[1][2].event_type = "delegation"
    /\ TutorEvents[1][2].agent = "MathAgent"
    /\ TutorEvents[1][2].context.ambiguity_note

\* the Clarification events of the TutorAgent
Clarifications ==
    { i \in 1..Len(TutorEvents) : TutorEvents[i][2].event_type = "clarification" }

\* C37: the options of every Clarification name both candidate agents,
\* Mathematics and Physics, whichever agents the score mapping holds.
C37_ClarificationNamesEveryAgent ==
    \A i \in Clarifications : TutorEvents[i][2].payload = "Mathematics, Physics"

DelegationsInRange ==
    \A i \in Delegations :
        emitted[i][2].confidence >= 0 /\ emitted[i][2].confidence <= One
\* the TutorAgent ended with Error TUTOR_AGENT_ERROR and no target agent is
\* about to run
EndsInTutorError ==
    /\ Len(TutorEvents) = 1
    /\ TutorEvents[1][2].event_type = "error"
    /\ TutorEvents[1][2].error = "TUTOR_AGENT_ERROR"
    /\ Delegations = {}
    /\ Len(stack) = 1
    /\ ~ENABLED HandleDelegation
OracleSaid == Routed /\ OracleConsulted

\* C39 as stated: every Delegation carries a confidence in [0, 1]; when the
\* oracle's confidence lies outside [0, 1] the TutorAgent emits Error
\* TUTOR_AGENT_ERROR, no Delegation, and no specialist is run.
C39_OutOfRangeConfidenceIsError ==
    /\ DelegationsInRange
    /\ (OracleSaid /\ (stack[1].confidence < 0 \/ stack[1].confidence > One))
           => EndsInTutorError

\* C39, amended: every Delegation carries a confidence in [0, 1]; an oracle
\* confidence above 1 ends in Error TUTOR_AGENT_ERROR, a negative one in a
\* GeneralResponse; in both cases there is no Delegation and no specialist
\* is run.
C39_DelegationConfidenceInRange ==
    /\ DelegationsInRange
    /\ (OracleSaid /\ stack[1].confidence > One) => EndsInTutorError
    /\ (OracleSaid /\ stack[1].confidence < 0) =>
           /\ Len(TutorEvents) = 1
           /\ TutorEvents[1][2].event_type = "general_response"
           /\ Delegations = {}
           /\ Len(stack) = 1
           /\ ~ENABLED HandleDelegation

\* the oracle said 1.2
C39_Witness ==
    /\ OracleSaid
    /\ stack[1].confidence = 12000
    /\ EndsInTutorError

\* the six fields a target's context takes over from the delegating one
Inherited(f) ==
    <<f.query, f.request_id, f.trace_id, f.session_id, f.session_state, f.metadata>>
\* the context payload of the Delegation that agent a emitted last
DelegatedContext(a) ==
    LET own == { i \in Delegations : emitted[i][1] = a }
        last == CHOOSE i \in own : \A j \in own : j <= i
    IN emitted[last][2].context
TargetContexts ==
    \A i \in 2..Len(stack) :
        /\ Inherited(stack[i]) = Inherited(stack[i - 1])
        /\ Inherited(stack[i]) =
               <<query, request_id, trace_id, session_id, session_state, EmptyMapping>>
        /\ \E d \in Delegations : emitted[d][1] = stack[i - 1].agent_name
        /\ stack[i].extracted_context = DelegatedContext(stack[i - 1].agent_name)
        /\ stack[i].agent_name \in { emitted[d][2].agent : d \in Delegations }
DelegationKept ==
    \A i \in 1..Len(Yielded) : Yielded[i].event_type # "delegation"
ContextsBelowKept ==
    Len(stack') = Len(stack) + 1 =>
        \A i \in 1..Len(stack) :
            /\ Inherited(stack'[i]) = Inherited(stack[i])
            /\ stack'[i].extracted_context = stack[i].extracted_context

\* C33: the target of a Delegation runs on a context whose query,
\* request_id, trace_id, session_id, session_state and metadata are those of
\* the delegating context and whose extracted_context is the Delegation's
\* context payload; starting the target leaves the delegating context as it
\* was; the Delegation itself is never yielded to the caller of run_agent.
C33_DelegationContext ==
    /\ [](TargetContexts /\ DelegationKept)
    /\ [][ContextsBelowKept]_vars

\* a specialist running on the payload of a Delegation with an ambiguity note
C33_Witness ==
    /\ Len(stack) = 2
    /\ stack[2].agent_name = "PhysicsAgent"
    /\ stack[2].apc # "start"
    /\ stack[2].extracted_context.ambiguity_note
    /\ stack[2].extracted_context # stack[1].extracted_context
    /\ stack[2].session_id # NoSession

\* the invocations PhysicsAgent.run makes for the query, in the order of its
\* three sections
PhysicsPlan ==
    (IF query.p_const THEN << <<"LookupTool", "constant">> >> ELSE <<>>)
    \o (IF query.p_formula THEN << <<"LookupTool", "formula">> >> ELSE <<>>)
    \o (IF query.p_calc THEN << <<"CalculatorTool", "expression">> >> ELSE <<>>)
IsPrefix(s, t) == Len(s) <= Len(t) /\ \A i \in 1..Len(s) : s[i] = t[i]
PhysicsFinalResponses ==
    { i \in 1..Len(emitted) : /\ emitted[i][1] = "PhysicsAgent"
                              /\ emitted[i][2].event_type = "final_response" }

\* C35: the PhysicsAgent emits at most three ToolInvocations in a run, in
\* the order constant lookup, formula lookup, calculator, each only when its
\* need fired and only after the result of the one before was handled; a
\* failed tool result stops neither the later invocations nor the
\* FinalResponse, so a finished run has made every invocation of its plan
\* and emitted one FinalResponse.
C35_PhysicsInvocationOrder ==
    /\ Len(InvocationsOf("PhysicsAgent")) <= 3
    /\ IsPrefix(InvocationsOf("PhysicsAgent"), PhysicsPlan)
    /\ Len(InvocationsOf("PhysicsAgent")) <= Len(received) + 1
    /\ ( /\ Finished
         /\ DelegatedTo("PhysicsAgent")
         /\ {"LookupTool", "CalculatorTool"} \subseteq tools
         /\ "PhysicsAgent" \in agents
         /\ NoOracleTrouble("PhysicsAgent", "PHYSICS_AGENT_ERROR") )
       => /\ InvocationsOf("PhysicsAgent") = PhysicsPlan
          /\ Cardinality(PhysicsFinalResponses) = 1

\* the invocations of the PhysicsAgent whose result reached the agent
\* without an error, in invocation order; the k-th value received answers
\* the k-th invocation
Answered(k) == k <= Len(received) /\ received[k].event_type = "tool_result"
Succeeded(k) == Answered(k) /\ received[k].error = None
SucceededInvocations ==
    LET all == InvocationsOf("PhysicsAgent")
        RECURSIVE Pick(_)
        Pick(k) == IF k > Len(all) THEN <<>>
                   ELSE (IF Succeeded(k) THEN <<k>> ELSE <<>>) \o Pick(k + 1)
    IN Pick(1)
JoinedNames(ks) ==
    LET all == InvocationsOf("PhysicsAgent")
        RECURSIVE Join(_)
        Join(i) == IF i = Len(ks) THEN all[ks[i]][1]
                   ELSE all[ks[i]][1] \o ", " \o Join(i + 1)
    IN Join(1)
\* the result of the successful invocation of one kind, None without one
ResultOfKind(kind) ==
    LET all == InvocationsOf("PhysicsAgent")
        hit == { k \in 1..Len(all) : all[k][2] = kind /\ Succeeded(k) }
    IN IF hit = {} THEN None ELSE received[CHOOSE k \in hit : TRUE].payload

\* C36: the FinalResponse of the PhysicsAgent reflects exactly the tools
\* that succeeded: tool_used and tool_results are absent when none did; they
\* are the tool's name and its result when one did; when two or more did,
\* tool_used is their names joined in invocation order and tool_results the
\* composite of constant_result, formula_result and calculation_result; a
\* tool that failed is never named.
C36_FinalResponseReflectsSucceededTools ==
    \A i \in PhysicsFinalResponses :
        LET e == emitted[i][2]
            ks == SucceededInvocations
        IN /\ Len(ks) = 0 => (e.tool = None /\ e.results = NoResults)
           /\ Len(ks) = 1 =>
                 /\ e.tool = InvocationsOf("PhysicsAgent")[ks[1]][1]
                 /\ e.results = SingleResult(received[ks[1]].payload)
           /\ Len(ks) >= 2 =>
                 /\ e.tool = JoinedNames(ks)
                 /\ e.results = CompositeResult(ResultOfKind("constant"),
                                                ResultOfKind("formula"),
                                                ResultOfKind("expression"))

\* a FinalResponse after a successful constant lookup, a failed formula
\* lookup and a successful calculation
C36_Witness ==
    /\ PhysicsFinalResponses # {}
    /\ Len(InvocationsOf("PhysicsAgent")) = 3
    /\ SucceededInvocations = <<1, 3>>
    /\ received[2].error # None
    /\ \E i \in PhysicsFinalResponses :
          /\ emitted[i][2].tool = "LookupTool, CalculatorTool"
          /\ emitted[i][2].results.formula_result = None

\* the store after the complete update of the current call
CompletelyUpdated ==
    update_session_state(sessions0, session_id,
                         [last_query |-> query.text,
                          last_response |-> final_response,
                          last_agent_used |-> agent_used])
Cancelled == pc = "raised" /\ raised = "CancelledError"
StoreWhole ==
    /\ pc = "running" => sessions = sessions0
    /\ Finished =>
          \/ sessions = sessions0
          \/ HasSession(session_id) /\ sessions = CompletelyUpdated
    /\ Cancelled => sessions = sessions0
\* a step of a running call that writes the store is the call's last step
WriteIsLast == (pc = "running" /\ sessions' # sessions) => pc' # "running"

\* C32: when process_query is cancelled at a suspension point, the store
\* holds exactly the state before the call or the complete update of the
\* three keys last_query, last_response, last_agent_used, never a part of
\* it; a call writes the store at most once, as its last effect.
C32_CancellationLeavesStoreWhole ==
    /\ []StoreWhole
    /\ [][WriteIsLast]_vars

\* the second call on a session was cancelled: the store holds what the
\* first call wrote
C32_Witness ==
    /\ Cancelled
    /\ calls = 2
    /\ HasSession(session_id)
    /\ session_id \in DOMAIN sessions
    /\ "last_query" \in DOMAIN sessions[session_id]
    /\ sessions[session_id].last_query # query.text
    /\ emitted # <<>>

\* the three keys of a session entry, as a triple
LastThree(entry) == <<entry.last_query, entry.last_response, entry.last_agent_used>>
\* every entry of the store is, whole, the entry of one call on that session
\* that went through its session update
OneCallsEntry ==
    \A sid \in DOMAIN sessions :
        \E t \in Tasks :
            /\ t.session_id = sid
            /\ WroteSession(t)
            /\ sessions[sid] = EntryAlone(t)
\* the step in which the call that holds the loop goes through its session
\* update
SessionUpdateStep ==
    /\ pc = "running"
    /\ \/ pc' = "returned"
       \/ pc' = "raised" /\ raised' = "No final response was generated"
\* the session update of a call leaves that call's three values in the
\* entry of its session, whatever the entry held, and no other step changes
\* the store
LastWriterWins ==
    /\ ~SessionUpdateStep => sessions' = sessions
    /\ SessionUpdateStep =>
        /\ DOMAIN sessions' = DOMAIN sessions \cup {session_id}
        /\ \A sid \in DOMAIN sessions : sid # session_id => sessions'[sid] = sessions[sid]
        /\ DOMAIN sessions'[session_id] =
               {"last_query", "last_response", "last_agent_used"}
        /\ LastThree(sessions'[session_id]) =
               <<query.text, final_response', agent_used'>>

\* C40: with calls on the same session id interleaved at the awaits of the
\* oracles, the keys last_query, last_response and last_agent_used of the
\* session's entry always come from one and the same call, the one that
\* wrote last; the entry is never a mix of two calls.
C40_SameSessionLastWriter ==
    /\ []OneCallsEntry
    /\ [][LastWriterWins]_vars

\* two calls on one session that overlapped (each started before the other
\* wrote) and left different entries; the store holds one of them
C40_Witness ==
    /\ pc = "idle"
    /\ Cardinality(DOMAIN suspended) = 2
    /\ \A k \in DOMAIN suspended :
          /\ WroteSession(suspended[k])
          /\ DOMAIN suspended[k].sessions0 = {}
    /\ \A j \in DOMAIN suspended, k \in DOMAIN suspended :
          /\ suspended[j].session_id = suspended[k].session_id
          /\ j # k =>
                /\ suspended[j].final_response # suspended[k].final_response
                /\ suspended[j].agent_used # suspended[k].agent_used
    /\ Cardinality(DOMAIN sessions) = 1

====
